---- MODULE Spec2Model ----
(***************************************************************************)
(* TradeBuddy: the broker sync pipeline (run_incremental_sync, the        *)
(* WhatsApp refresh command, the scheduler's fleet-wide job, the manual    *)
(* refresh endpoint and the post-login sync) over the MongoDB collections  *)
(* connections, holdings, positions, funds, orders, trades, instruments    *)
(* and meta.                                                               *)
(*                                                                         *)
(* Every execution is a coroutine: it is cut at the awaits between its     *)
(* try-blocks (one action per block of run_incremental_sync, one action    *)
(* per awaited statement of handle_refresh_command), so that executions    *)
(* interleave exactly where the event loop can switch.                     *)
(***************************************************************************)
EXTENDS Integers, Sequences, FiniteSets, TLC

\* ------------------------------------------------------------------ bounds
MaxEvents == 4      \* requests, cron ticks and environment changes in one behaviour
MaxFaults == 2      \* transient faults (fetch, map, upsert) injected in one behaviour
FaultRuns == 1      \* executions in a behaviour with faults
RaceRuns == 2       \* executions in a behaviour with overlapping executions
MaxTicks == 3       \* cron ticks in a behaviour of the periodic job alone
JobRuns == 2        \* refresh requests in a behaviour with embedding jobs
EmbEvents == 3      \* builds, debug inserts and midnights in a behaviour of the index
EmbFaults == 1      \* faults injected into the builds of such a behaviour
MaxK == 2           \* the largest k asked for
MaxExchanges == 4   \* exchanges and session resets in a behaviour of the conversation
SafeRuns == 2       \* syncs and refreshes in a behaviour over typed payloads
MaxLogin == 5       \* callbacks, done commands and waits in a behaviour of the login

\* ---------------------------------------------------------------- universe
Users == {"u1", "u2"}
Tasks == {"job", "req", "req2"}
None == "None"
Accounts == {"P1", "P2"}

\* dict.get(key, default)
Get(d, k, default) == IF k \in DOMAIN d THEN d[k] ELSE default

\* a datetime value: naive, timezone-aware (off = utc offset), a date, or None
Naive(t) == [k |-> "naive", t |-> t, off |-> 0]
Aware(t, off) == [k |-> "aware", t |-> t, off |-> off]
NoTime == [k |-> "none", t |-> 0, off |-> 0]
\* a datetime.date
Date(t) == [k |-> "date", t |-> t, off |-> 0]
\* an int or a float, a decimal.Decimal, a dict and a list of such values
Number(n) == [k |-> "number", v |-> n]
Decimal(n) == [k |-> "decimal", v |-> n]
Dict(items) == [k |-> "dict", items |-> items]
List(items) == [k |-> "list", items |-> items]

Prefix(s, n) == SubSeq(s, 1, n)

\* ------------------------------------------------------------------ broker
\* StubKiteClient: the fixed demo account every user without a usable
\* access token gets; its timestamps are the time of the call.
StubAccount(now) ==
    [ funds |-> [equity |-> [net |-> 100000, available |-> Number(80000)]],
      holdings |-> << [tradingsymbol |-> "TATAMOTORS", quantity |-> 10,
                       average_price |-> 950, last_price |-> 1020] >>,
      positions |-> [day |-> <<>>, net |-> <<>>],
      orders |-> << [order_id |-> "ORD1", tradingsymbol |-> "TATAMOTORS",
                     transaction_type |-> "BUY", quantity |-> 10,
                     average_price |-> 950, status |-> "COMPLETE",
                     order_timestamp |-> Naive(now)] >>,
      instruments |-> << [instrument_token |-> "123", tradingsymbol |-> "TATAMOTORS",
                          exchange |-> "NSE", segment |-> "EQ", lot_size |-> 1] >> ]

RawHolding(sym, q, avg, last) ==
    [tradingsymbol |-> sym, instrument_token |-> "tok" \o sym, quantity |-> q,
     average_price |-> avg, last_price |-> last]

RawPosition(sym, q, avg, pnl) ==
    [tradingsymbol |-> sym, instrument_token |-> "tok" \o sym, quantity |-> q,
     average_price |-> avg, pnl |-> pnl]

RawOrder(id, sym, side, q, filled, avg, status, ts) ==
    [order_id |-> id, tradingsymbol |-> sym, transaction_type |-> side,
     quantity |-> q, filled_quantity |-> filled, average_price |-> avg,
     status |-> status, order_timestamp |-> ts]

RawInstruments ==
    << [instrument_token |-> "tokA", tradingsymbol |-> "A", name |-> "A Ltd",
        exchange |-> "NSE", segment |-> "EQ", lot_size |-> 1,
        instrument_type |-> "EQ"] >>

\* What RealKiteClient returns for user u whose broker account is in state a.
\* Order ids of real accounts are the broker's and differ between users.
RealAccount(u, a) ==
    CASE a = "P1" ->
           [ funds |-> [equity |-> [net |-> 1000, available |-> Number(800)]],
             holdings |-> << RawHolding("A", 10, 100, 110) >>,
             positions |-> [day |-> <<>>, net |-> <<>>],
             orders |-> << RawOrder(u \o "-O1", "A", "BUY", 10, 10, 100,
                                    "COMPLETE", Aware(1, 1)) >>,
             instruments |-> RawInstruments ]
      [] a = "P3" ->
           \* margins with a nested breakdown, an instrument with an expiry
           [ funds |-> [equity |->
                          [net |-> 900,
                           available |->
                             Dict([cash |-> Decimal(700),
                                   asOf |-> Aware(2, 1),
                                   history |-> List(<< Dict([day |-> Date(1),
                                                             amount |-> Decimal(5)]),
                                                       Date(2) >>)])]],
             holdings |-> << RawHolding("A", 12, 100, 120) >>,
             positions |-> [day |-> <<>>, net |-> << RawPosition("A", 2, 100, 6) >>],
             orders |-> << RawOrder(u \o "-O1", "A", "BUY", 10, 10, 100,
                                    "COMPLETE", Aware(1, 1)),
                           RawOrder(u \o "-O3", "A", "SELL", 2, 2, 110,
                                    "COMPLETE", Date(2)) >>,
             instruments |-> << [instrument_token |-> "tokF", tradingsymbol |-> "F",
                                 name |-> "A FUT", exchange |-> "NFO",
                                 segment |-> "NFO-FUT", lot_size |-> 50,
                                 expiry |-> Date(30), instrument_type |-> "FUT"] >> ]
      [] OTHER ->
           [ funds |-> [equity |-> [net |-> 900, available_cash |-> Number(700)],
                        derivative |-> [net |-> 50, available |-> Number(50)]],
             holdings |-> << RawHolding("A", 12, 100, 120),
                             RawHolding("B", 5, 200, 190) >>,
             positions |-> [day |-> << RawPosition("A", 2, 100, 6) >>,
                            net |-> << RawPosition("A", 2, 100, 6) >>],
             orders |-> << RawOrder(u \o "-O1", "A", "BUY", 10, 10, 100,
                                    "COMPLETE", Aware(1, 1)),
                           RawOrder(u \o "-O2", "B", "SELL", 5, 0, 0,
                                    "OPEN", Naive(1)) >>,
             instruments |-> RawInstruments ]

\* ----------------------------------------------------------------- mappers
SegName(seg) == IF seg = "equity" THEN "EQUITY" ELSE "DERIVATIVE"

MapFund(raw, seg, now) ==
    [ segment |-> SegName(seg),
      available |-> Get(raw[seg], "available", Get(raw[seg], "available_cash", Number(0))),
      net |-> Get(raw[seg], "net", 0),
      updatedAt |-> Naive(now) ]

map_funds(raw, now) ==
    (IF "equity" \in DOMAIN raw THEN << MapFund(raw, "equity", now) >> ELSE <<>>)
    \o (IF "derivative" \in DOMAIN raw THEN << MapFund(raw, "derivative", now) >> ELSE <<>>)

MapHolding(h, now) ==
    [ tradingsymbol |-> Get(h, "tradingsymbol", None),
      instrumentToken |-> Get(h, "instrument_token", None),
      qty |-> Get(h, "quantity", 0),
      avgPrice |-> Get(h, "average_price", 0),
      lastPrice |-> Get(h, "last_price", 0),
      updatedAt |-> Naive(now) ]

map_holdings(raw, now) == [i \in 1..Len(raw) |-> MapHolding(raw[i], now)]

MapPosition(p, bucket, now) ==
    [ bucket |-> bucket,
      tradingsymbol |-> Get(p, "tradingsymbol", None),
      instrumentToken |-> Get(p, "instrument_token", None),
      qty |-> Get(p, "quantity", 0),
      avg |-> Get(p, "average_price", Get(p, "avg_price", 0)),
      pnl |-> Get(p, "pnl", 0),
      updatedAt |-> Naive(now) ]

map_positions(raw, now) ==
    [i \in 1..Len(Get(raw, "day", <<>>)) |-> MapPosition(raw.day[i], "day", now)]
    \o [i \in 1..Len(Get(raw, "net", <<>>)) |-> MapPosition(raw.net[i], "net", now)]

MapOrder(o) ==
    [ orderId |-> Get(o, "order_id", None),
      symbol |-> Get(o, "tradingsymbol", None),
      side |-> Get(o, "transaction_type", None),
      qty |-> Get(o, "quantity", 0),
      avgPrice |-> Get(o, "average_price", 0),
      status |-> Get(o, "status", None),
      ts |-> IF Get(o, "order_timestamp", NoTime) # NoTime
             THEN o.order_timestamp ELSE Get(o, "timestamp", NoTime) ]

map_orders(raw) == [i \in 1..Len(raw) |-> MapOrder(raw[i])]

\* the trade rows run_incremental_sync derives from the COMPLETE orders
IsFilled(o) == Get(o, "status", None) = "COMPLETE" /\ Get(o, "filled_quantity", 0) > 0

TradeOfOrder(o) ==
    [ tradeId |-> Get(o, "order_id", None),
      orderId |-> Get(o, "order_id", None),
      symbol |-> Get(o, "tradingsymbol", None),
      side |-> Get(o, "transaction_type", None),
      qty |-> Get(o, "filled_quantity", 0),
      price |-> Get(o, "average_price", 0),
      ts |-> Get(o, "order_timestamp", NoTime) ]

trade_history(raw) ==
    LET filled == SelectSeq(raw, IsFilled)
    IN [i \in 1..Len(filled) |-> TradeOfOrder(filled[i])]

MapInstrument(ins) ==
    [ instrumentToken |-> Get(ins, "instrument_token", None),
      tradingsymbol |-> Get(ins, "tradingsymbol", None),
      name |-> Get(ins, "name", None),
      exchange |-> Get(ins, "exchange", None),
      segment |-> Get(ins, "segment", None),
      lotSize |-> Get(ins, "lot_size", 0),
      expiry |-> Get(ins, "expiry", NoTime),
      strike |-> Get(ins, "strike", None),
      instrumentType |-> Get(ins, "instrument_type", None) ]

map_instruments(raw) == [i \in 1..Len(raw) |-> MapInstrument(raw[i])]

\* ------------------------------------------------------- document store
\* the fields whose values carry their Python type: the datetimes, the
\* margins' available balance and the instruments' expiry; the values of
\* every other field are strings and numbers, which no conversion touches
TypedFields == {"ts", "updatedAt", "syncedAt", "available", "expiry"}

\* a variant that converts the value itself and does not descend into lists
to_mongo_safe_flat(v) ==
    CASE v.k = "aware" -> Naive(v.t - v.off)
      [] v.k = "date" -> Naive(v.t)
      [] v.k = "decimal" -> Number(v.v)
      [] v.k = "dict" ->
           Dict([f \in DOMAIN v.items |->
                   IF v.items[f].k \in {"aware", "date"} THEN Naive(v.items[f].t - v.items[f].off)
                   ELSE IF v.items[f].k = "decimal" THEN Number(v.items[f].v)
                   ELSE v.items[f]])
      [] OTHER -> v

RECURSIVE _to_mongo_safe(_)
\* _to_mongo_safe: a tz-aware datetime becomes naive UTC, a date becomes the
\* midnight datetime, a Decimal becomes a float, a dict and a list are
\* converted value by value, every other value is returned as it is
_to_mongo_safe(v) ==
    CASE v.k = "aware" -> Naive(v.t - v.off)
      [] v.k = "date" -> Naive(v.t)
      [] v.k = "decimal" -> Number(v.v)
      [] v.k = "dict" -> Dict([f \in DOMAIN v.items |-> _to_mongo_safe(v.items[f])])
      [] v.k = "list" -> List([i \in 1..Len(v.items) |-> _to_mongo_safe(v.items[i])])
      [] OTHER -> v

_normalize_doc(d) ==
    [f \in DOMAIN d |-> IF f \in TypedFields THEN _to_mongo_safe(d[f]) ELSE d[f]]

\* normalize_instrument: an expiry that is a date becomes the midnight datetime
normalize_instrument(d) ==
    IF d.expiry.k = "date" THEN [d EXCEPT !.expiry = Naive(@.t)] ELSE d

RECURSIVE Encodable(_)
\* the driver encodes the value: it raises InvalidDocument for a date and for
\* a Decimal, wherever they are
Encodable(v) ==
    CASE v.k \in {"date", "decimal"} -> FALSE
      [] v.k = "dict" -> \A f \in DOMAIN v.items : Encodable(v.items[f])
      [] v.k = "list" -> \A i \in 1..Len(v.items) : Encodable(v.items[i])
      [] OTHER -> TRUE

EncodableDoc(d) == \A f \in DOMAIN d \cap TypedFields : Encodable(d[f])

RECURSIVE Encoded(_)
\* the value as the driver stores it: a BSON datetime is the UTC instant
Encoded(v) ==
    CASE v.k = "aware" -> Naive(v.t - v.off)
      [] v.k = "dict" -> Dict([f \in DOMAIN v.items |-> Encoded(v.items[f])])
      [] v.k = "list" -> List([i \in 1..Len(v.items) |-> Encoded(v.items[i])])
      [] OTHER -> v

EncodedDoc(d) == [f \in DOMAIN d |-> IF f \in TypedFields THEN Encoded(d[f]) ELSE d[f]]

\* collection.insert_many(docs): InvalidDocument before anything is sent when
\* a document cannot be encoded
CanInsert(docs) == \A i \in 1..Len(docs) : EncodableDoc(docs[i])
insert_many(col, docs) == col \o [i \in 1..Len(docs) |-> EncodedDoc(docs[i])]

\* a filter document {field: value, ...}; a missing field matches None
Matches(doc, key) == \A f \in DOMAIN key : Get(doc, f, None) = key[f]

HasMatch(col, key) == \E i \in 1..Len(col) : Matches(col[i], key)

FirstMatch(col, key) ==
    CHOOSE i \in 1..Len(col) :
        Matches(col[i], key) /\ \A j \in 1..(i - 1) : ~Matches(col[j], key)

\* a variant that inserts whether or not the key is already stored
InsertAlways(col, key, set) == Append(col, set @@ key)

\* collection.update_one(key, {"$set": set}, upsert=True)
update_one_upsert(col, key, set) ==
    IF HasMatch(col, key)
    THEN [col EXCEPT ![FirstMatch(col, key)] = set @@ @]
    ELSE Append(col, set @@ key)

\* collection.delete_many(key)
delete_many(col, key) == SelectSeq(col, LAMBDA d : ~Matches(d, key))

\* d2 = _normalize_doc(d); d2["userId"] = user_id
Owned(d, uid) == [userId |-> uid] @@ _normalize_doc(d)

\* the filter of an upsert: the named fields of the document written
KeyOf(fields, d2) ==
    [f \in fields |-> Get(d2, f, IF f = "segment" THEN "EQ" ELSE None)]

FundsKey == {"userId", "segment"}

\* a variant whose key carries the write time as well
HoldingsKeyWithTime == {"userId", "tradingsymbol", "updatedAt"}

HoldingsKey == {"userId", "tradingsymbol"}

PositionsKey == {"userId", "tradingsymbol", "bucket"}

OrdersKey == {"orderId"}

TradesKey == {"tradeId"}

\* for d in docs: update_one(key(d2), {"$set": d2}, upsert=True)
RECURSIVE UpsertEach(_, _, _, _)
UpsertEach(col, uid, docs, fields) ==
    IF docs = <<>> THEN col
    ELSE UpsertEach(update_one_upsert(col, KeyOf(fields, Owned(Head(docs), uid)),
                                      Owned(Head(docs), uid)),
                    uid, Tail(docs), fields)

upsert_funds(col, uid, docs) == UpsertEach(col, uid, docs, FundsKey)
upsert_holdings(col, uid, docs) == UpsertEach(col, uid, docs, HoldingsKey)
upsert_positions(col, uid, docs) == UpsertEach(col, uid, docs, PositionsKey)
upsert_orders(col, uid, docs) == UpsertEach(col, uid, docs, OrdersKey)
upsert_trades(col, uid, docs) == UpsertEach(col, uid, docs, TradesKey)

InstrumentKey(d) == [instrumentToken |-> d.instrumentToken]

RECURSIVE upsert_instruments(_, _)
upsert_instruments(col, docs) ==
    IF docs = <<>> THEN col
    ELSE upsert_instruments(
             update_one_upsert(col, InstrumentKey(normalize_instrument(Head(docs))),
                               normalize_instrument(Head(docs))),
             Tail(docs))

\* h["userId"] = user_id; h["syncedAt"] = datetime.now(timezone.utc)
Stamped(docs, uid, now) ==
    [i \in 1..Len(docs) |-> [userId |-> uid, syncedAt |-> Aware(now, 0)] @@ docs[i]]

\* ------------------------------------------------------------- embeddings
\* the kinds build_embeddings_for_user writes
Kinds == {"portfolio_summary", "trade_history", "funds_summary", "positions_summary"}

\* the first row alone
SumOfFirst(rows, a, b) ==
    IF rows = <<>> THEN 0 ELSE Get(Head(rows), a, 0) * Get(Head(rows), b, 0)

RECURSIVE SumOver(_, _, _)
\* sum(row[a] * row[b] for row in rows)
SumOver(rows, a, b) ==
    IF rows = <<>> THEN 0
    ELSE Get(Head(rows), a, 0) * Get(Head(rows), b, 0) + SumOver(Tail(rows), a, b)

RECURSIVE Total(_, _)
\* sum(row[a] for row in rows)
Total(rows, a) ==
    IF rows = <<>> THEN 0 ELSE Get(Head(rows), a, 0) + Total(Tail(rows), a)

\* ts.strftime("%Y-%m")
MonthOf(ts) == ts.t \div 30

\* embed_text: the vector the embedding service returns for a text
embed_text(text) == [of |-> text.title, n |-> text.n]

\* the document upsert_embedding writes
EmbeddingDoc(uid, kind, doc_id, chunk, metadata, now) ==
    [ userId |-> uid, phone |-> None, kind |-> kind, docId |-> doc_id,
      vector |-> embed_text(chunk), chunk |-> chunk, meta |-> metadata,
      updatedAt |-> Naive(now) ]

EmbeddingKey(doc) == [userId |-> doc.userId, kind |-> doc.kind, docId |-> doc.docId]

\* update_one({userId, kind, docId}, {"$set": doc}, upsert=True)
upsert_embedding(col, doc) == update_one_upsert(col, EmbeddingKey(doc), doc)

\* insert_one({userId, phone, kind, docId, vector, chunk})
insert_embedding(col, uid, kind, doc_id, chunk) ==
    Append(col, [ userId |-> uid, phone |-> None, kind |-> kind, docId |-> doc_id,
                  vector |-> embed_text(chunk), chunk |-> chunk ])

\* (pnl / investment * 100) if investment > 0 else 0, as the text shows it:
\* two decimals, kept as hundredths of a percent, rounded to the nearest
Percent(pnl, investment) ==
    IF investment > 0
    THEN (2 * pnl * 10000 + investment) \div (2 * investment)
    ELSE 0

\* 1. portfolio summary: one text for all holdings, doc id portfolio-<date>
PortfolioDocs(rows, uid, now) ==
    IF rows = <<>> THEN <<>>
    ELSE LET total_value == SumOver(rows, "qty", "lastPrice")
             total_investment == SumOver(rows, "qty", "avgPrice")
             total_pnl == total_value - total_investment
         IN << EmbeddingDoc(uid, "portfolio_summary", <<"portfolio", now>>,
                   [title |-> "CURRENT PORTFOLIO OVERVIEW", n |-> Len(rows),
                    investment |-> total_investment, value |-> total_value,
                    pnl |-> total_pnl,
                    pct |-> Percent(total_pnl, total_investment), day |-> now],
                   [totalValue |-> total_value,
                    totalPnL |-> total_pnl,
                    holdingsCount |-> Len(rows), generatedAt |-> now], now) >>

\* the trades of the last 180 days that carry a timestamp
RecentTrades(rows, now) ==
    SelectSeq(rows, LAMBDA r : Get(r, "ts", NoTime) # NoTime /\ r.ts.t >= now - 180)

RECURSIVE MonthsDescending(_)
\* the month keys of trades_by_month, trades sorted by ts descending
MonthsDescending(S) ==
    IF S = {} THEN <<>>
    ELSE LET top == CHOOSE m \in S : \A x \in S : x <= m
         IN <<top>> \o MonthsDescending(S \ {top})

\* "BUY" in str(t.get("side", "")).upper(), likewise "SELL"
HasSide(t, word) == Get(t, "side", "") = word

\* 2. trade history: one text per month, doc id trades-<month>
TradeDocs(rows, uid, now) ==
    LET recent == RecentTrades(rows, now)
        months == MonthsDescending({MonthOf(recent[i].ts) : i \in 1..Len(recent)})
        Of(m) == SelectSeq(recent, LAMBDA r : MonthOf(r.ts) = m)
        buy_trades(m) == SelectSeq(Of(m), LAMBDA t : HasSide(t, "BUY"))
        sell_trades(m) == SelectSeq(Of(m), LAMBDA t : HasSide(t, "SELL"))
        buy_value(m) == SumOver(buy_trades(m), "qty", "price")
        sell_value(m) == SumOver(sell_trades(m), "qty", "price")
    IN [i \in 1..Len(months) |->
          EmbeddingDoc(uid, "trade_history", <<"trades", months[i]>>,
              [title |-> "TRADE HISTORY", n |-> Len(Of(months[i])),
               buys |-> buy_trades(months[i]), sells |-> sell_trades(months[i]),
               buyValue |-> buy_value(months[i]), sellValue |-> sell_value(months[i]),
               net |-> sell_value(months[i]) - buy_value(months[i]),
               value |-> SumOver(Of(months[i]), "qty", "price"), day |-> months[i]],
              [month |-> months[i], tradesCount |-> Len(Of(months[i])),
               buyCount |-> Len(buy_trades(months[i])),
               sellCount |-> Len(sell_trades(months[i])),
               buyValue |-> buy_value(months[i]), sellValue |-> sell_value(months[i]),
               generatedAt |-> now], now)]

\* 3. funds summary, doc id funds-<date>
FundsDocs(rows, uid, now) ==
    IF rows = <<>> THEN <<>>
    ELSE << EmbeddingDoc(uid, "funds_summary", <<"funds", now>>,
                [title |-> "ACCOUNT FUNDS", n |-> Len(rows),
                 value |-> Total(rows, "net"), day |-> now],
                [generatedAt |-> now], now) >>

\* 4. positions summary over the rows of the day bucket, doc id positions-<date>
PositionsDocs(rows, uid, now) ==
    LET positions_parts == SelectSeq(rows, LAMBDA r : Get(r, "bucket", "net") = "day")
    IN IF positions_parts = <<>> THEN <<>>
       ELSE << EmbeddingDoc(uid, "positions_summary", <<"positions", now>>,
                   [title |-> "CURRENT DAY POSITIONS", n |-> Len(positions_parts),
                    value |-> 0, day |-> now],
                   [positionsCount |-> Len(positions_parts), generatedAt |-> now],
                   now) >>

RECURSIVE UpsertEmbeddings(_, _)
UpsertEmbeddings(col, docs) ==
    IF docs = <<>> THEN col
    ELSE UpsertEmbeddings(upsert_embedding(col, Head(docs)), Tail(docs))

\* -------------------------------------------------------------- retrieval
\* the texts a question or a debug document can carry
PortfolioText == [title |-> "CURRENT PORTFOLIO OVERVIEW", n |-> 2]
FundsText == [title |-> "ACCOUNT FUNDS", n |-> 1]

\* vectorSearchScore of a stored vector for a query vector, in tenths
Score(qv, v) == 6 + (IF qv.of = v.of THEN 2 ELSE 0) + (IF qv.n = v.n THEN 1 ELSE 0)

\* a variant whose filter leaves out the user
FilteredByKindOnly(col, uid, kind) ==
    SelectSeq(col, LAMBDA d : kind = None \/ d.kind = kind)

\* the filter {userId} or {userId, kind}
Filtered(col, uid, kind) ==
    SelectSeq(col, LAMBDA d : d.userId = uid /\ (kind = None \/ d.kind = kind))

Without(seq, i) == [j \in 1..(Len(seq) - 1) |-> IF j < i THEN seq[j] ELSE seq[j + 1]]

RECURSIVE Nearest(_, _, _)
\* $vectorSearch with limit k: the k candidates with the highest score
Nearest(cands, qv, k) ==
    IF k <= 0 \/ cands = <<>> THEN <<>>
    ELSE LET best == CHOOSE i \in 1..Len(cands) :
                       /\ \A j \in 1..Len(cands) :
                            Score(qv, cands[j].vector) <= Score(qv, cands[i].vector)
                       /\ \A j \in 1..(i - 1) :
                            Score(qv, cands[j].vector) < Score(qv, cands[i].vector)
         IN << [cands[best] EXCEPT !.score = Score(qv, cands[best].vector)] >>
            \o Nearest(Without(cands, best), qv, k - 1)

Scored(docs, score) == [i \in 1..Len(docs) |-> [score |-> score] @@ docs[i]]

\* aggregate([{$vectorSearch: ...}, {$project: ...}]).to_list(k)
VectorResults(col, uid, kind, question, k) ==
    Nearest(Scored(Filtered(col, uid, kind), 0), embed_text(question), k)

\* $text: the documents whose text holds the words of the question
TextMatches(d, question) == d.chunk.title = question.title

\* find({userId, $text: {$search: question}}).limit(k).to_list(k), each
\* result given the score 0.5
TextResults(col, uid, question, k) ==
    LET found == SelectSeq(col, LAMBDA d : d.userId = uid /\ TextMatches(d, question))
    IN Scored(Prefix(found, IF Len(found) < k THEN Len(found) ELSE k), 5)

\* a variant whose last resort reads the documents of every user
AnyDataOfAnyone(col, uid) ==
    [i \in 1..(IF Len(col) < 3 THEN Len(col) ELSE 3) |->
       [docId |-> col[i].docId, chunk |-> col[i].chunk, score |-> 3, metadata |-> <<>>]]

\* find({userId}).limit(3).to_list(3), each given the score 0.3
AnyData(col, uid) ==
    LET found == Filtered(col, uid, None)
    IN [i \in 1..(IF Len(found) < 3 THEN Len(found) ELSE 3) |->
          [docId |-> found[i].docId, chunk |-> found[i].chunk, score |-> 3,
           metadata |-> <<>>]]

\* chunks.append({docId, chunk, score, metadata})
Chunks(results) ==
    [i \in 1..Len(results) |->
       [docId |-> results[i].docId, chunk |-> results[i].chunk,
        score |-> results[i].score, metadata |-> Get(results[i], "meta", <<>>)]]

\* if not chunks: any documents of the user stand in
OrAnyData(col, uid, chunks) == IF chunks = <<>> THEN AnyData(col, uid) ELSE chunks

\* retrieve_context; primary and text say whether the $vectorSearch and the
\* $text query answer or raise (create_indexes.py creates no text index)
retrieve_context(col, uid, question, k, kind, primary, text) ==
    IF primary = "ok"
    THEN LET chunks == Chunks(VectorResults(col, uid, kind, question, k))
         IN [outcome |-> "list", chunks |-> OrAnyData(col, uid, chunks),
             path |-> IF chunks = <<>> THEN "any" ELSE "vector"]
    ELSE IF text = "ok"
    THEN LET chunks == Chunks(TextResults(col, uid, question, k))
         IN [outcome |-> "list", chunks |-> OrAnyData(col, uid, chunks),
             path |-> IF chunks = <<>> THEN "any" ELSE "text"]
    ELSE [outcome |-> "raised", chunks |-> <<>>, path |-> "text"]

\* ----------------------------------------------------------- conversation
\* conversation.py keeps the last 50 messages and notifies at 100, 500, 1000,
\* 2000 and 5000 messages; the model keeps the shape at a smaller scale: an
\* even window, even thresholds, messages stored two at a time
MAX_RECENT_MESSAGES == 4
MILESTONE_NOTIFICATIONS == {2, 6}
TokensPerMessage == 50

\* the token budgets asked for: less than the recent window, the recent
\* window alone, less than one more message, one more message, three more
Budgets == {150, 200, 220, 250, 350}

\* count_documents({"userId": user_id}), archived messages included
get_message_count(msgs, uid) == Len(SelectSeq(msgs, LAMBDA m : m.userId = uid))

\* sort("ts", -1): later timestamps first; messages with one timestamp come in
\* an order the database chooses (tie)
Precedes(a, b, tie) ==
    \/ a.ts > b.ts
    \/ a.ts = b.ts /\ (IF tie = "first" THEN a.id < b.id ELSE a.id > b.id)

RECURSIVE SortedByTsDescending(_, _)
SortedByTsDescending(S, tie) ==
    IF S = {} THEN <<>>
    ELSE LET top == CHOOSE m \in S : \A x \in S \ {m} : Precedes(m, x, tie)
         IN <<top>> \o SortedByTsDescending(S \ {top}, tie)

\* a variant that leaves the list as the query returned it
Unreversed(seq) == seq

\* recent_messages.reverse()
Reversed(seq) == [i \in 1..Len(seq) |-> seq[Len(seq) + 1 - i]]

\* find({"userId": uid}).sort("ts", -1).skip(skip).limit(limit).to_list(None),
\* then reverse()
Page(msgs, uid, skip, limit, tie) ==
    LET sorted == SortedByTsDescending(
                      {msgs[i] : i \in {j \in 1..Len(msgs) : msgs[j].userId = uid}}, tie)
        last == IF skip + limit < Len(sorted) THEN skip + limit ELSE Len(sorted)
    IN Reversed(SubSeq(sorted, skip + 1, last))

\* a variant that takes the oldest messages of the history
OldestMessages(msgs, uid, additional, tie) ==
    Page(msgs, uid, get_message_count(msgs, uid) - additional, additional, tie)

\* the query for the messages just before the recent window
OlderMessages(msgs, uid, additional, tie) ==
    Page(msgs, uid, MAX_RECENT_MESSAGES, additional, tie)

get_conversation_context(msgs, uid, max_tokens, tie1, tie2) ==
    LET total_count == get_message_count(msgs, uid)
        recent_messages == Page(msgs, uid, 0, MAX_RECENT_MESSAGES, tie1)
        recent_tokens == Len(recent_messages) * TokensPerMessage
        remaining_budget == max_tokens - recent_tokens
        fit == remaining_budget \div TokensPerMessage
        older == total_count - MAX_RECENT_MESSAGES
        additional_messages == IF fit < older THEN fit ELSE older
    IN IF total_count = 0 THEN [list |-> <<>>, state |-> "empty"]
       ELSE IF total_count <= MAX_RECENT_MESSAGES
       THEN [list |-> recent_messages, state |-> "full"]
       ELSE IF recent_tokens < max_tokens
       THEN IF additional_messages > 0
            THEN [list |-> OlderMessages(msgs, uid, additional_messages, tie2)
                           \o recent_messages,
                  state |-> "extended"]
            ELSE [list |-> recent_messages, state |-> "recent_only"]
       ELSE [list |-> recent_messages, state |-> "summarized"]

\* update_many({userId, archived: {$exists: False}},
\*             {$set: {archived: True, archivedAt: now}})
Archived(m, now) == [archived |-> TRUE, archivedAt |-> now] @@ m

\* a variant whose filter is {archived: False}: no stored message has the field
archive_unflagged(msgs, uid, now) ==
    [i \in 1..Len(msgs) |->
       IF msgs[i].userId = uid /\ "archived" \in DOMAIN msgs[i] /\ ~msgs[i].archived
       THEN Archived(msgs[i], now) ELSE msgs[i]]

\* a variant that marks the messages of every user
archive_everyone(msgs, uid, now) ==
    [i \in 1..Len(msgs) |->
       IF "archived" \notin DOMAIN msgs[i] THEN Archived(msgs[i], now) ELSE msgs[i]]

archive_messages(msgs, uid, now) ==
    [i \in 1..Len(msgs) |->
       IF msgs[i].userId = uid /\ "archived" \notin DOMAIN msgs[i]
       THEN Archived(msgs[i], now) ELSE msgs[i]]

\* insert_many([{userId, role: "user", text: question, ts},
\*              {userId, role: "assistant", text: answer, ts}]): the two
\* timestamps are taken microseconds apart and stored in milliseconds
insert_exchange(msgs, uid, question, reply, now) ==
    msgs \o << [id |-> Len(msgs) + 1, userId |-> uid, role |-> "user",
                text |-> question, ts |-> now],
               [id |-> Len(msgs) + 2, userId |-> uid, role |-> "assistant",
                text |-> reply, ts |-> now] >>

\* if count in MILESTONE_NOTIFICATIONS
AtMilestone(count) == count \in MILESTONE_NOTIFICATIONS

\* ------------------------------------------------------------------- state
VARIABLES
    connections,   \* user -> the user's zerodha connection document
    credOK,        \* user -> the broker still accepts the stored access token
    account,       \* user -> the state of the user's account at the broker
    clock,         \* datetime.utcnow()
    holdings, positions, funds, orders, trades, instruments,   \* collections
    meta,          \* meta["instruments_meta"].updatedAt, -1 when there is none
    embJobs,       \* the one-shot embedding jobs added to the scheduler
    task,          \* the coroutine of the periodic job and of one request
    events, faults,  \* the events and the injected faults still to come
    lastSync,      \* history: user -> the upstream of the user's last clean sync
    embeddings,    \* the embeddings collection, in insertion order
    emb,           \* the coroutine of one build_embeddings_for_user call
    answer,        \* the outcome of the last retrieve_context call
    messages,      \* the messages collection, in insertion order
    watermark,     \* user -> users.lastMilestoneNotified
    chat,          \* the coroutines of the conversation requests in progress
    context,       \* the outcome of the last get_conversation_context call
    notified,      \* history: the milestone notifications returned
    temp_tokens,   \* app.state.temp_tokens, a dict in insertion order
    exchanged      \* history: the calls of exchange_request_token_for_access_token

store == <<holdings, positions, funds, orders, trades>>
embVars == <<embeddings, emb, answer>>
convVars == <<messages, watermark, chat, context, notified>>
loginVars == <<temp_tokens, exchanged>>
portfolioVars == <<connections, credOK, account, holdings, positions, funds, orders,
                   trades, instruments, meta, embJobs, task, faults, lastSync>>
vars == <<connections, credOK, account, clock, holdings, positions, funds,
          orders, trades, instruments, meta, embJobs, task, events, faults,
          lastSync, embeddings, emb, answer, messages, watermark, chat, context,
          notified, temp_tokens, exchanged>>

Chats == {"c1", "c2"}
IdleChat == [pc |-> "idle", user |-> None, count |-> 0, before |-> <<>>]
NoContext == [user |-> None, max_tokens |-> 0, list |-> <<>>, state |-> None]

\* no message stored, no milestone notified, no request in progress, no
\* request token pending
NoConversation ==
    /\ messages = <<>>
    /\ watermark = [u \in Users |-> 0]
    /\ chat = [c \in Chats |-> IdleChat]
    /\ context = NoContext
    /\ notified = <<>>
    /\ temp_tokens = <<>>
    /\ exchanged = <<>>

NoConnection == [exists |-> FALSE, enabled |-> FALSE, real |-> FALSE]
NoSync == [real |-> FALSE, account |-> None]

\* the holdings, positions and funds rows of user u
RowsOf(col, u) == SelectSeq(col, LAMBDA d : Get(d, "userId", None) = u)
Snapshot(u) ==
    [holdings |-> RowsOf(holdings, u), positions |-> RowsOf(positions, u),
     funds |-> RowsOf(funds, u)]
NoSnapshot == [holdings |-> <<>>, positions |-> <<>>, funds |-> <<>>]

IdleTask ==
    [ kind |-> "idle", pc |-> "idle", user |-> None, queue |-> <<>>,
      force |-> FALSE, skipEmb |-> TRUE, real |-> FALSE, raw |-> <<>>,
      changed |-> <<>>, note |-> None, embeddings |-> None, reply |-> None,
      \* history of the current execution, read by the properties only
      calls |-> {}, writes |-> 0, outs |-> <<>>, quiet |-> TRUE,
      follows |-> FALSE, before |-> NoSnapshot, skipped |-> 0,
      listed |-> {}, invoked |-> <<>>, raised |-> 0 ]

\* no build_embeddings_for_user call in progress
IdleBuild ==
    [ pc |-> "idle", user |-> None, via |-> None, created |-> 0, errors |-> <<>>,
      bound |-> {}, result |-> None,
      \* history of the call, read by the properties only
      written |-> 0, outs |-> <<>> ]

\* no retrieve_context call made yet
NoAnswer ==
    [ outcome |-> None, user |-> None, kind |-> None, k |-> 0, question |-> None, chunks |-> <<>>,
      primary |-> None, path |-> None ]

Init ==
    /\ connections = [u \in Users |-> NoConnection]
    /\ credOK = [u \in Users |-> FALSE]
    /\ account = [u \in Users |-> "P2"]
    /\ clock = 0
    /\ holdings = <<>> /\ positions = <<>> /\ funds = <<>>
    /\ orders = <<>> /\ trades = <<>> /\ instruments = <<>>
    /\ meta = -1
    /\ embJobs = <<>>
    /\ task = [t \in Tasks |-> IdleTask]
    /\ events = MaxEvents
    /\ faults = 0
    /\ lastSync = [u \in Users |-> NoSync]
    /\ embeddings = <<>>
    /\ emb = IdleBuild
    /\ answer = NoAnswer
    /\ NoConversation

Running(t) == task[t].kind # "idle"
OthersIdle(t) == \A x \in Tasks \ {t} : ~Running(x)

\* every execution in progress has been overlapped or had its upstream changed
Disturbed(tasks) ==
    [x \in Tasks |-> IF tasks[x].kind = "idle" THEN tasks[x]
                     ELSE [tasks[x] EXCEPT !.quiet = FALSE]]

\* ----------------------------------------------------- run_incremental_sync
\* build_kite_client(conn.accessToken, conn.apiKey) answers from the real
\* broker account of the user or from the stub.
Data(t) ==
    IF task[t].real THEN RealAccount(task[t].user, account[task[t].user])
    ELSE StubAccount(clock)

UpstreamOf(u, real) == [real |-> real, account |-> IF real THEN account[u] ELSE "stub"]

\* conn = find_one({userId, provider, enabled: True})
HasEnabledConnectionIgnoringFlag(u) == connections[u].exists
HasEnabledConnection(u) == connections[u].exists /\ connections[u].enabled

\* the ways one fetch -> map -> upsert block over n documents can end: the
\* broker rejects an expired token on every call; otherwise the environment
\* may inject a fetch fault, malformed data, or a store fault after k writes
BlockOutcomes(t, n) ==
    IF task[t].real /\ ~credOK[task[t].user]
    THEN {[kind |-> "rejected", k |-> 0]}
    ELSE {[kind |-> "ok", k |-> n]}
         \cup (IF faults > 0 /\ task[t].real
               THEN {[kind |-> "fetch_fault", k |-> 0], [kind |-> "map_fault", k |-> 0]}
               ELSE {})
         \cup (IF faults > 0
               THEN {[kind |-> "upsert_fault", k |-> j] : j \in 0..(n - 1)}
               ELSE {})

IsFault(o) == o.kind \notin {"ok", "rejected"}
Injected(o) == IF IsFault(o) THEN 1 ELSE 0

Ok(doc) == [doc |-> doc, error |-> FALSE, count |-> -1]
Counted(doc, n) == [doc |-> doc, error |-> FALSE, count |-> n]
Err(doc) == [doc |-> doc, error |-> TRUE, count |-> -1]

\* history: the endpoint called, how the block ended, the documents written
Booked(tk, block, endpoint, o, written) ==
    [tk EXCEPT !.calls = @ \cup {endpoint},
               !.outs = Append(@, [block |-> block, kind |-> o.kind]),
               !.writes = @ + written]

\* a variant without the except clause: the exception leaves the function
AfterBlockUncaught(tk, doc, o, next) ==
    IF o.kind = "ok"
    THEN [tk EXCEPT !.changed = Append(@, Ok(doc)), !.pc = next]
    ELSE [tk EXCEPT !.pc = "s_raised"]

\* try: ...; changed.append({"doc": doc})
\* except Exception as e: changed.append({"doc": doc, "error": str(e)})
AfterBlock(tk, doc, o, next) ==
    IF o.kind = "ok"
    THEN [tk EXCEPT !.changed = Append(@, Ok(doc)), !.pc = next]
    ELSE [tk EXCEPT !.changed = Append(@, Err(doc)), !.pc = next]

\* the first statements of run_incremental_sync, called with (user, flags)
BeginSync(tk, t, u, force, skip) ==
    [tk EXCEPT !.user = u, !.pc = "s_conn", !.force = force, !.skipEmb = skip,
               !.real = FALSE, !.changed = <<>>, !.note = None,
               !.embeddings = None, !.calls = {}, !.writes = 0, !.outs = <<>>,
               !.quiet = OthersIdle(t), !.follows = FALSE,
               !.before = Snapshot(u)]

\* 0) connection: no enabled connection ends the sync at once
SyncConnection(t) ==
    /\ task[t].pc = "s_conn"
    /\ LET u == task[t].user IN
       IF ~HasEnabledConnection(u)
       THEN /\ task' = [task EXCEPT ![t].note = "no-connection", ![t].pc = "s_ret"]
            /\ UNCHANGED lastSync
       ELSE /\ task' = [task EXCEPT
                  ![t].real = connections[u].real,
                  ![t].follows = (lastSync[u] = UpstreamOf(u, connections[u].real)),
                  ![t].before = Snapshot(u),
                  ![t].pc = IF task[t].force THEN "s_instr" ELSE "s_funds"]
            /\ lastSync' = [lastSync EXCEPT ![u] = NoSync]
    /\ UNCHANGED <<connections, credOK, account, clock, holdings, positions,
                   funds, orders, trades, instruments, meta, embJobs, events, faults>>
    /\ UNCHANGED <<embVars, convVars, loginVars>>

ThreeDays == 3

\* the meta row's updatedAt as find_one returns it: the client of db.py is
\* not tz_aware, so a stored datetime is read back naive
StoredTime(ts) == Naive(ts)

\* datetime - datetime raises TypeError between an aware and a naive value
CanSubtract(a, b) == a.k = b.k

\* _instruments_recent: no meta row -> False; otherwise now(utc) - updatedAt
\* is compared with three days
_instruments_recent ==
    IF meta = -1 THEN "no"
    ELSE IF ~CanSubtract(Aware(clock, 0), StoredTime(meta)) THEN "raises"
    ELSE IF clock - meta < ThreeDays THEN "yes" ELSE "no"

TypeError == [kind |-> "type_error", k |-> 0]

\* 1) instruments, only when forced and the cached copy is not recent
SyncInstruments(t) ==
    /\ task[t].pc = "s_instr"
    /\ CASE _instruments_recent = "yes" ->
            /\ task' = [task EXCEPT ![t].pc = "s_funds"]
            /\ UNCHANGED <<instruments, meta, faults>>
         [] _instruments_recent = "raises" ->
            /\ task' = [task EXCEPT ![t] =
                   AfterBlock([@ EXCEPT !.outs = Append(@, [block |-> "instruments",
                                                            kind |-> "type_error"])],
                              "instruments", TypeError, "s_funds")]
            /\ UNCHANGED <<instruments, meta, faults>>
         [] OTHER ->
            LET docs == map_instruments(Data(t).instruments) IN
            \E o \in BlockOutcomes(t, Len(docs)) :
              /\ instruments' = upsert_instruments(instruments, Prefix(docs, o.k))
              /\ meta' = IF o.kind = "ok" THEN clock ELSE meta
              /\ task' = [task EXCEPT ![t] =
                     AfterBlock(Booked(@, "instruments", "get_instruments", o, o.k),
                                "instruments", o, "s_funds")]
              /\ faults' = faults - Injected(o)
    /\ UNCHANGED <<connections, credOK, account, clock, holdings, positions,
                   funds, orders, trades, embJobs, events, lastSync>>
    /\ UNCHANGED <<embVars, convVars, loginVars>>

\* 2) funds
SyncFunds(t) ==
    /\ task[t].pc = "s_funds"
    /\ LET docs == map_funds(Data(t).funds, clock) IN
       \E o \in BlockOutcomes(t, Len(docs)) :
         /\ funds' = upsert_funds(funds, task[t].user, Prefix(docs, o.k))
         /\ task' = [task EXCEPT ![t] =
                AfterBlock(Booked(@, "funds", "get_funds", o, o.k),
                           "funds", o, "s_holdings")]
         /\ faults' = faults - Injected(o)
    /\ UNCHANGED <<connections, credOK, account, clock, holdings, positions,
                   orders, trades, instruments, meta, embJobs, events, lastSync>>
    /\ UNCHANGED <<embVars, convVars, loginVars>>

SyncHoldings(t) ==
    /\ task[t].pc = "s_holdings"
    /\ LET docs == map_holdings(Data(t).holdings, clock) IN
       \E o \in BlockOutcomes(t, Len(docs)) :
         /\ holdings' = upsert_holdings(holdings, task[t].user, Prefix(docs, o.k))
         /\ task' = [task EXCEPT ![t] =
                AfterBlock(Booked(@, "holdings", "get_holdings", o, o.k),
                           "holdings", o, "s_positions")]
         /\ faults' = faults - Injected(o)
    /\ UNCHANGED <<connections, credOK, account, clock, positions, funds,
                   orders, trades, instruments, meta, embJobs, events, lastSync>>
    /\ UNCHANGED <<embVars, convVars, loginVars>>

SyncPositions(t) ==
    /\ task[t].pc = "s_positions"
    /\ LET docs == map_positions(Data(t).positions, clock) IN
       \E o \in BlockOutcomes(t, Len(docs)) :
         /\ positions' = upsert_positions(positions, task[t].user, Prefix(docs, o.k))
         /\ task' = [task EXCEPT ![t] =
                AfterBlock(Booked(@, "positions", "get_positions", o, o.k),
                           "positions", o, "s_orders")]
         /\ faults' = faults - Injected(o)
    /\ UNCHANGED <<connections, credOK, account, clock, holdings, funds,
                   orders, trades, instruments, meta, embJobs, events, lastSync>>
    /\ UNCHANGED <<embVars, convVars, loginVars>>

SyncOrders(t) ==
    /\ task[t].pc = "s_orders"
    /\ LET docs == map_orders(Data(t).orders) IN
       \E o \in BlockOutcomes(t, Len(docs)) :
         /\ orders' = upsert_orders(orders, task[t].user, Prefix(docs, o.k))
         /\ task' = [task EXCEPT ![t] =
                AfterBlock(Booked(@, "orders", "get_orders", o, o.k),
                           "orders", o, "s_trades")]
         /\ faults' = faults - Injected(o)
    /\ UNCHANGED <<connections, credOK, account, clock, holdings, positions,
                   funds, trades, instruments, meta, embJobs, events, lastSync>>
    /\ UNCHANGED <<embVars, convVars, loginVars>>

\* the last try-block: orders fetched again, the trades derived from the
\* COMPLETE orders and upserted, then all orders upserted once more
TradesOutcomes(t, nT, nO) ==
    BlockOutcomes(t, nT)
    \cup (IF faults > 0 /\ ~(task[t].real /\ ~credOK[task[t].user])
          THEN {[kind |-> "upsert2_fault", k |-> j] : j \in 0..(nO - 1)}
          ELSE {})

\* changed.append(trades, count); changed.append(orders, count)
\* except Exception as e: changed.append({"doc": "orders", "error": str(e)})
AfterTrades(tk, o, nT, nO) ==
    CASE o.kind = "ok" ->
           [tk EXCEPT !.changed = @ \o <<Counted("trades", nT), Counted("orders", nO)>>,
                      !.pc = "s_ret"]
      [] o.kind = "upsert2_fault" ->
           [tk EXCEPT !.changed = @ \o <<Counted("trades", nT), Err("orders")>>,
                      !.pc = "s_ret"]
      [] OTHER ->
           [tk EXCEPT !.changed = Append(@, Err("orders")), !.pc = "s_ret"]

SyncTrades(t) ==
    /\ task[t].pc = "s_trades"
    /\ LET all_orders == Data(t).orders
           history == trade_history(all_orders)
           nT == Len(history)
           nO == Len(all_orders)
       IN \E o \in TradesOutcomes(t, nT, nO) :
            LET kT == IF o.kind = "upsert2_fault" THEN nT ELSE o.k
                kO == CASE o.kind = "ok" -> nO
                        [] o.kind = "upsert2_fault" -> o.k
                        [] OTHER -> 0
            IN /\ trades' = upsert_trades(trades, task[t].user, Prefix(history, kT))
               /\ orders' = upsert_orders(orders, task[t].user,
                                          Prefix(map_orders(all_orders), kO))
               /\ task' = [task EXCEPT ![t] =
                      AfterTrades(Booked(@, "trades", "get_orders", o, kT + kO),
                                  o, nT, nO)]
               /\ faults' = faults - Injected(o)
    /\ UNCHANGED <<connections, credOK, account, clock, holdings, positions,
                   funds, instruments, meta, embJobs, events, lastSync>>
    /\ UNCHANGED <<embVars, convVars, loginVars>>

NoErrors(tk) == \A i \in 1..Len(tk.changed) : ~tk.changed[i].error
AllOk(tk) == \A i \in 1..Len(tk.outs) : tk.outs[i].kind = "ok"
CleanSync(tk) == tk.pc = "s_ret" /\ tk.note = None /\ tk.quiet /\ AllOk(tk)

\* return {..., "updated": changed, "embeddings": "skipped" | "handled elsewhere"}
\* and what the caller does with the result
\* a variant that adds the job twice
\* id=f"embeddings-{user_id}-{int(now.timestamp())}"
JobId(uid, now) == <<uid, now>>
EmbeddingsJob(uid, now) == [id |-> JobId(uid, now), user |-> uid]

\* the job store holds a job of that id: add_job(..., replace_existing=False)
\* raises ConflictingIdError
Conflicting(jobs, uid, now) == \E i \in 1..Len(jobs) : jobs[i].id = JobId(uid, now)

EnqueuedTwice(jobs, uid, now) ==
    jobs \o <<EmbeddingsJob(uid, now), EmbeddingsJob(uid, now)>>

\* scheduler.add_job(run_embeddings_job, trigger="date", kwargs={user_id})
enqueue_embeddings(jobs, uid, now) == Append(jobs, EmbeddingsJob(uid, now))

SyncReturn(t) ==
    /\ task[t].pc = "s_ret"
    /\ LET tk == task[t]
           result == IF tk.note = None THEN "skipped" ELSE None
       IN /\ lastSync' = IF CleanSync(tk)
                         THEN [lastSync EXCEPT ![tk.user] = UpstreamOf(tk.user, tk.real)]
                         ELSE lastSync
          /\ CASE tk.kind = "periodic" ->
                    \* refresh_all_users_job: the result is dropped, next user
                    /\ task' = [task EXCEPT ![t].pc = "j_next", ![t].embeddings = result]
                    /\ UNCHANGED embJobs
               [] tk.kind = "manual" ->
                    \* manual_refresh: enqueue_embeddings unless skipEmbeddings
                    IF ~tk.skipEmb /\ Conflicting(embJobs, tk.user, clock)
                    THEN \* the exception leaves manual_refresh: no result
                         /\ task' = [task EXCEPT ![t].pc = "done",
                                                 ![t].reply = "error"]
                         /\ UNCHANGED embJobs
                    ELSE IF ~tk.skipEmb
                    THEN /\ embJobs' = enqueue_embeddings(embJobs, tk.user, clock)
                         /\ task' = [task EXCEPT ![t].pc = "done",
                                                 ![t].embeddings = "scheduled"]
                    ELSE /\ task' = [task EXCEPT ![t].pc = "done",
                                                 ![t].embeddings = result]
                         /\ UNCHANGED embJobs
               [] OTHER ->
                    \* handle_done_command: build_embeddings_for_user follows
                    /\ task' = [task EXCEPT ![t].pc = "l_emb", ![t].embeddings = result]
                    /\ UNCHANGED embJobs
    /\ UNCHANGED <<connections, credOK, account, clock, holdings, positions,
                   funds, orders, trades, instruments, meta, events, faults>>
    /\ UNCHANGED <<embVars, convVars, loginVars>>

\* -------------------------------------------------------------- scheduler
\* add_job(refresh_all_users_job, CronTrigger(minute="*/15"), max_instances=1,
\* coalesce=True): the executor runs a fired tick only while fewer than
\* max_instances executions of the job are in progress
max_instances == 1

RunningInstances == IF Running("job") THEN 1 ELSE 0

\* a variant that submits every fired tick
StartsAnyway == TRUE

MayStartInstance == RunningInstances < max_instances

\* the cron trigger fires and the executor runs refresh_all_users_job
StartJob ==
    /\ MayStartInstance
    /\ clock' = clock + 1
    /\ events > 0
    /\ events' = events - 1
    /\ task' = [Disturbed(task) EXCEPT !["job"] =
                    [IdleTask EXCEPT !.kind = "periodic", !.pc = "j_list"]]
    /\ UNCHANGED <<connections, credOK, account, holdings, positions,
                   funds, orders, trades, instruments, meta, embJobs, faults, lastSync>>
    /\ UNCHANGED <<embVars, convVars, loginVars>>

\* the cron trigger fires while the job is still running: the run is skipped
\* (logged by the scheduler) and nothing is kept for later
SkipTick ==
    /\ ~MayStartInstance
    /\ clock' = clock + 1
    /\ events > 0
    /\ events' = events - 1
    /\ task' = [task EXCEPT !["job"].skipped = @ + 1]
    /\ UNCHANGED <<connections, credOK, account, holdings, positions,
                   funds, orders, trades, instruments, meta, embJobs, faults, lastSync>>
    /\ UNCHANGED <<embVars, convVars, loginVars>>

\* list_active_users: the users of the enabled connections, in cursor order
Active == {u \in Users : connections[u].exists /\ connections[u].enabled}

Orderings(S) ==
    {q \in UNION {[1..n -> S] : n \in {Cardinality(S)}} :
        \A i, j \in DOMAIN q : i # j => q[i] # q[j]}

JobList ==
    /\ task["job"].pc = "j_list"
    /\ \E q \in Orderings(Active) :
         task' = [task EXCEPT !["job"].queue = q, !["job"].pc = "j_next",
                              !["job"].listed = Active]
    /\ UNCHANGED <<connections, credOK, account, clock, holdings, positions,
                   funds, orders, trades, instruments, meta, embJobs, events, faults,
                   lastSync>>
    /\ UNCHANGED <<embVars, convVars, loginVars>>

\* for uid in user_ids: await self.run_incremental_sync(self.db, oid)
JobNext ==
    /\ task["job"].pc = "j_next"
    /\ IF task["job"].queue = <<>>
       THEN task' = [task EXCEPT !["job"] = IdleTask]
       ELSE task' = [task EXCEPT !["job"] =
                BeginSync([@ EXCEPT !.queue = Tail(@),
                                    !.invoked = Append(@, Head(task["job"].queue))],
                          "job",
                          Head(task["job"].queue), FALSE, TRUE)]
    /\ UNCHANGED <<connections, credOK, account, clock, holdings, positions,
                   funds, orders, trades, instruments, meta, embJobs, events, faults,
                   lastSync>>
    /\ UNCHANGED <<embVars, convVars, loginVars>>

\* a variant of the loop without the inner try: the exception ends the pass
AfterRaiseAbandoned(tk) == IdleTask

\* except Exception: traceback.print_exc(), and the loop goes on
AfterRaise(tk) == [tk EXCEPT !.pc = "j_next"]

\* the sync called by the job raises: its connection lookup, which is outside
\* every try block of run_incremental_sync, fails
JobSyncRaises ==
    /\ task["job"].kind = "periodic"
    /\ task["job"].pc = "s_conn"
    /\ faults > 0
    /\ faults' = faults - 1
    /\ task' = [task EXCEPT !["job"] =
                    AfterRaise([@ EXCEPT !.raised = @ + 1])]
    /\ UNCHANGED <<connections, credOK, account, clock, holdings, positions,
                   funds, orders, trades, instruments, meta, embJobs, events, lastSync>>
    /\ UNCHANGED <<embVars, convVars, loginVars>>

\* POST /debug/refresh?userId=u&forceInstruments=f&skipEmbeddings=s
StartManualOn(t, u, force, skip) ==
    /\ ~Running(t)
    /\ clock' = clock + 1
    /\ events > 0
    /\ events' = events - 1
    /\ task' = [Disturbed(task) EXCEPT ![t] =
                    BeginSync([IdleTask EXCEPT !.kind = "manual"], t, u, force, skip)]
    /\ UNCHANGED <<connections, credOK, account, holdings, positions,
                   funds, orders, trades, instruments, meta, embJobs, faults, lastSync>>
    /\ UNCHANGED <<embVars, convVars, loginVars>>

StartManual(u, force, skip) == StartManualOn("req", u, force, skip)

\* the request has been answered
Finish(t) ==
    /\ task[t].pc = "done"
    /\ task' = [task EXCEPT ![t] = IdleTask]
    /\ UNCHANGED <<connections, credOK, account, clock, holdings, positions,
                   funds, orders, trades, instruments, meta, embJobs, events, faults,
                   lastSync>>
    /\ UNCHANGED <<embVars, convVars, loginVars>>

\* ------------------------------------------- build_embeddings_for_user
\* the ways one step of the build can end: the read of the collection, the
\* call of the embedding service or the upsert may fail, the latter two after
\* j of the step's n documents have been stored
BuildOutcomes(n) ==
    {[kind |-> "ok", j |-> n]}
    \cup (IF faults > 0
          THEN {[kind |-> "read_fault", j |-> 0]}
               \cup {[kind |-> k, j |-> i] :
                       k \in {"embed_fault", "upsert_fault"}, i \in 0..(n - 1)}
          ELSE {})

\* the call ends with an exception instead of a result
Raised == [outcome |-> "raised"]

\* the call begins: embeddings_created = 0, errors = []
BeginBuild(u, via) == [IdleBuild EXCEPT !.pc = "e_user", !.user = u, !.via = via]

\* scheduler: a one-shot job added by enqueue_embeddings runs
run_embeddings_job ==
    /\ emb.pc = "idle"
    /\ embJobs # <<>>
    /\ emb' = BeginBuild(Head(embJobs).user, "job")
    /\ embJobs' = Tail(embJobs)
    /\ UNCHANGED <<connections, credOK, account, clock, holdings, positions, funds,
                   orders, trades, instruments, meta, task, events, faults, lastSync,
                   embeddings, answer>>
    /\ UNCHANGED <<convVars, loginVars>>

\* POST /debug/generate-embeddings?userId=u
generate_embeddings_manually(u) ==
    /\ emb.pc = "idle"
    /\ events > 0
    /\ events' = events - 1
    /\ emb' = BeginBuild(u, "endpoint")
    /\ answer' = NoAnswer
    /\ UNCHANGED <<connections, credOK, account, clock, holdings, positions, funds,
                   orders, trades, instruments, meta, embJobs, task, faults, lastSync,
                   embeddings>>
    /\ UNCHANGED <<convVars, loginVars>>

\* user = await db["users"].find_one(...), before the try block
BuildUser ==
    /\ emb.pc = "e_user"
    /\ \E ok \in BOOLEAN :
         /\ ~ok => faults > 0
         /\ faults' = IF ok THEN faults ELSE faults - 1
         /\ emb' = IF ok THEN [emb EXCEPT !.pc = "e_holdings"]
                   ELSE [emb EXCEPT !.pc = "e_done", !.result = Raised,
                                    !.outs = Append(@, "read_fault")]
    /\ UNCHANGED <<connections, credOK, account, clock, holdings, positions, funds,
                   orders, trades, instruments, meta, embJobs, task, events, lastSync,
                   embeddings, answer>>
    /\ UNCHANGED <<convVars, loginVars>>

\* one section of the try block: read the rows (binding the local name),
\* then for each summary embed_text and upsert_embedding; any exception goes
\* to the except clause, which appends to errors
AfterSection(b, name, docs, o, next) ==
    IF o.kind = "read_fault"
    THEN [b EXCEPT !.errors = Append(@, o.kind), !.outs = Append(@, o.kind),
                   !.pc = "e_ret"]
    ELSE IF o.kind = "ok"
    THEN [b EXCEPT !.bound = @ \cup {name}, !.created = @ + Len(docs),
                   !.written = @ + Len(docs), !.outs = Append(@, o.kind), !.pc = next]
    ELSE [b EXCEPT !.bound = @ \cup {name}, !.created = @ + o.j,
                   !.written = @ + o.j, !.errors = Append(@, o.kind),
                   !.outs = Append(@, o.kind), !.pc = "e_ret"]

BuildSection(pc, name, docs, next) ==
    /\ emb.pc = pc
    /\ \E o \in BuildOutcomes(Len(docs)) :
         /\ embeddings' = UpsertEmbeddings(embeddings, Prefix(docs, o.j))
         /\ emb' = AfterSection(emb, name, docs, o, next)
         /\ faults' = faults - (IF o.kind = "ok" THEN 0 ELSE 1)
    /\ UNCHANGED <<connections, credOK, account, clock, holdings, positions, funds,
                   orders, trades, instruments, meta, embJobs, task, events, lastSync,
                   answer>>
    /\ UNCHANGED <<convVars, loginVars>>

BuildPortfolio ==
    BuildSection("e_holdings", "holdings",
                 PortfolioDocs(RowsOf(holdings, emb.user), emb.user, clock), "e_trades")

BuildTrades ==
    BuildSection("e_trades", "trades",
                 TradeDocs(RowsOf(trades, emb.user), emb.user, clock), "e_funds")

BuildFunds ==
    BuildSection("e_funds", "funds",
                 FundsDocs(RowsOf(funds, emb.user), emb.user, clock), "e_positions")

BuildPositions ==
    BuildSection("e_positions", "positions",
                 PositionsDocs(RowsOf(positions, emb.user), emb.user, clock), "e_ret")

\* the return statement evaluates holdings, funds and positions: a name the
\* try block did not reach is unbound and the evaluation raises
ReturnEvaluates(b) == {"holdings", "funds", "positions"} \subseteq b.bound

BuildResult(b) ==
    IF ReturnEvaluates(b)
    THEN [ outcome |-> "returned", embeddingsCreated |-> b.created, errors |-> b.errors,
           status |-> IF b.created > 0 THEN "success" ELSE "no_data" ]
    ELSE Raised

BuildReturn ==
    /\ emb.pc = "e_ret"
    /\ emb' = [emb EXCEPT !.pc = "e_done", !.result = BuildResult(emb)]
    /\ UNCHANGED <<connections, credOK, account, clock, holdings, positions, funds,
                   orders, trades, instruments, meta, embJobs, task, events, faults,
                   lastSync, embeddings, answer>>
    /\ UNCHANGED <<convVars, loginVars>>

\* the caller has the result (run_embeddings_job prints an exception, the
\* endpoint answers with the result or with a server error)
BuildFinish ==
    /\ emb.pc = "e_done"
    /\ emb' = IdleBuild
    /\ UNCHANGED <<connections, credOK, account, clock, holdings, positions, funds,
                   orders, trades, instruments, meta, embJobs, task, events, faults,
                   lastSync, embeddings, answer>>
    /\ UNCHANGED <<convVars, loginVars>>

BuildStep ==
    \/ BuildUser \/ BuildPortfolio \/ BuildTrades \/ BuildFunds \/ BuildPositions
    \/ BuildReturn \/ BuildFinish

\* the whole call awaited by a command handler, which drops the result and
\* catches an exception: the summaries stored, all or up to a failure
BuiltDocs(u, now) ==
    PortfolioDocs(RowsOf(holdings, u), u, now) \o TradeDocs(RowsOf(trades, u), u, now)
    \o FundsDocs(RowsOf(funds, u), u, now) \o PositionsDocs(RowsOf(positions, u), u, now)

BuildInline(u) ==
    \E n \in 0..Len(BuiltDocs(u, clock)) :
        /\ n < Len(BuiltDocs(u, clock)) => faults > 0
        /\ faults' = IF n < Len(BuiltDocs(u, clock)) THEN faults - 1 ELSE faults
        /\ embeddings' = UpsertEmbeddings(embeddings, Prefix(BuiltDocs(u, clock), n))

\* ------------------------------------------------- handle_refresh_command
\* a refresh that clears the user's holdings before anything is checked
StartRefreshClearing(u) ==
    /\ ~Running("req")
    /\ clock' = clock + 1
    /\ events > 0
    /\ events' = events - 1
    /\ task' = [Disturbed(task) EXCEPT !["req"] =
                    [IdleTask EXCEPT !.kind = "whatsapp", !.pc = "w_conn", !.user = u,
                                     !.quiet = OthersIdle("req"),
                                     !.before = Snapshot(u)]]
    /\ lastSync' = [lastSync EXCEPT ![u] = NoSync]
    /\ holdings' = delete_many(holdings, [userId |-> u])
    /\ UNCHANGED <<connections, credOK, account, positions,
                   funds, orders, trades, instruments, meta, embJobs, faults>>
    /\ UNCHANGED <<embVars, convVars, loginVars>>

StartRefresh(u) ==
    /\ ~Running("req")
    /\ clock' = clock + 1
    /\ events > 0
    /\ events' = events - 1
    /\ task' = [Disturbed(task) EXCEPT !["req"] =
                    [IdleTask EXCEPT !.kind = "whatsapp", !.pc = "w_conn", !.user = u,
                                     !.quiet = OthersIdle("req"),
                                     !.before = Snapshot(u)]]
    /\ lastSync' = [lastSync EXCEPT ![u] = NoSync]
    /\ UNCHANGED <<connections, credOK, account, holdings, positions,
                   funds, orders, trades, instruments, meta, embJobs, faults>>
    /\ UNCHANGED <<embVars, convVars, loginVars>>

\* how kite.profile() and the three fetches after it can end
RefreshOutcomes(u) ==
    IF ~connections[u].real THEN {"no_profile"}
    ELSE IF ~credOK[u] THEN {"rejected"}
    ELSE {"ok"} \cup (IF faults > 0 THEN {"profile_fault", "fetch_fault"} ELSE {})

\* find the enabled connection, test the token with kite.profile(), fetch
\* holdings, positions and funds; nothing is awaited in between
RefreshCheck(t) ==
    /\ task[t].pc = "w_conn"
    /\ LET u == task[t].user IN
       IF ~(connections[u].exists /\ connections[u].enabled)
       THEN /\ task' = [task EXCEPT ![t].reply = "not-connected", ![t].pc = "done"]
            /\ UNCHANGED faults
       ELSE \E o \in RefreshOutcomes(u) :
              /\ faults' = faults - (IF o \in {"profile_fault", "fetch_fault"} THEN 1 ELSE 0)
              /\ task' = [task EXCEPT ![t] =
                   CASE o = "ok" ->
                          [@ EXCEPT !.real = TRUE, !.pc = "w_del_h",
                                    !.raw = RealAccount(u, account[u]),
                                    !.calls = {"profile", "get_holdings",
                                               "get_positions", "get_funds"}]
                     [] o = "fetch_fault" ->
                          [@ EXCEPT !.real = TRUE, !.pc = "done", !.reply = "failed",
                                    !.calls = {"profile", "get_holdings"}]
                     [] OTHER ->
                          [@ EXCEPT !.real = connections[u].real, !.pc = "w_disable",
                                    !.calls = {"profile"}]]
    /\ UNCHANGED <<connections, credOK, account, clock, holdings, positions,
                   funds, orders, trades, instruments, meta, embJobs, events, lastSync>>
    /\ UNCHANGED <<embVars, convVars, loginVars>>

\* update_one({userId, provider}, {"$set": {enabled: False, tokenExpiredAt}})
RefreshDisable(t) ==
    /\ task[t].pc = "w_disable"
    /\ connections' = [connections EXCEPT ![task[t].user] =
                          IF @.exists THEN [@ EXCEPT !.enabled = FALSE] ELSE @]
    /\ task' = [task EXCEPT ![t].reply = "expired", ![t].pc = "done"]
    /\ UNCHANGED <<credOK, account, clock, holdings, positions, funds, orders,
                   trades, instruments, meta, embJobs, events, faults, lastSync>>
    /\ UNCHANGED <<embVars, convVars, loginVars>>

DeleteTarget(pc) ==
    CASE pc = "w_del_h" -> "holdings" [] pc = "w_del_p" -> "positions"
      [] pc = "w_del_f" -> "funds" [] OTHER -> None

AfterDelete(pc) ==
    CASE pc = "w_del_h" -> "w_del_p" [] pc = "w_del_p" -> "w_del_f" [] OTHER -> "w_ins_h"

\* await db[...].delete_many({"userId": user_id}), one collection at a time
RefreshDelete(t) ==
    /\ task[t].pc \in {"w_del_h", "w_del_p", "w_del_f"}
    /\ LET u == task[t].user
           c == DeleteTarget(task[t].pc)
       IN \E fault \in {FALSE} \cup (IF faults > 0 THEN {TRUE} ELSE {}) :
            /\ faults' = faults - (IF fault THEN 1 ELSE 0)
            /\ holdings' = IF c = "holdings" /\ ~fault
                           THEN delete_many(holdings, [userId |-> u]) ELSE holdings
            /\ positions' = IF c = "positions" /\ ~fault
                            THEN delete_many(positions, [userId |-> u]) ELSE positions
            /\ funds' = IF c = "funds" /\ ~fault
                        THEN delete_many(funds, [userId |-> u]) ELSE funds
            /\ task' = [task EXCEPT ![t] =
                   IF fault THEN [@ EXCEPT !.reply = "failed", !.pc = "done"]
                   ELSE [@ EXCEPT !.pc = AfterDelete(task[t].pc), !.writes = @ + 1]]
    /\ UNCHANGED <<connections, credOK, account, clock, orders, trades,
                   instruments, meta, embJobs, events, lastSync>>
    /\ UNCHANGED <<embVars, convVars, loginVars>>

InsertDocs(tk, now) ==
    CASE tk.pc = "w_ins_h" -> Stamped(map_holdings(tk.raw.holdings, now), tk.user, now)
      [] tk.pc = "w_ins_p" -> Stamped(map_positions(tk.raw.positions, now), tk.user, now)
      [] OTHER -> Stamped(map_funds(tk.raw.funds, now), tk.user, now)

AfterInsert(pc) ==
    CASE pc = "w_ins_h" -> "w_ins_p" [] pc = "w_ins_p" -> "w_ins_f" [] OTHER -> "w_emb"

\* map the fetched rows, stamp userId and syncedAt, insert_many
RefreshInsert(t) ==
    /\ task[t].pc \in {"w_ins_h", "w_ins_p", "w_ins_f"}
    /\ LET tk == task[t]
           docs == InsertDocs(tk, clock)
           Stops == IF ~CanInsert(docs) THEN {0}
                    ELSE {Len(docs)} \cup (IF faults > 0 THEN 0..(Len(docs) - 1) ELSE {})
       IN \E k \in Stops :
            /\ faults' = faults - (IF k < Len(docs) /\ CanInsert(docs) THEN 1 ELSE 0)
            /\ holdings' = IF tk.pc = "w_ins_h" THEN insert_many(holdings, Prefix(docs, k))
                           ELSE holdings
            /\ positions' = IF tk.pc = "w_ins_p" THEN insert_many(positions, Prefix(docs, k))
                            ELSE positions
            /\ funds' = IF tk.pc = "w_ins_f" THEN insert_many(funds, Prefix(docs, k))
                        ELSE funds
            /\ task' = [task EXCEPT ![t] =
                   IF k < Len(docs) THEN [@ EXCEPT !.reply = "failed", !.pc = "done",
                                                   !.writes = @ + k]
                   ELSE [@ EXCEPT !.pc = AfterInsert(tk.pc), !.writes = @ + k]]
    /\ UNCHANGED <<connections, credOK, account, clock, orders, trades,
                   instruments, meta, embJobs, events, lastSync>>
    /\ UNCHANGED <<embVars, convVars, loginVars>>

\* await build_embeddings_for_user(db, user_id), then the reply
RefreshEmbeddings(t) ==
    /\ task[t].pc = "w_emb"
    /\ BuildInline(task[t].user)
    /\ task' = [task EXCEPT ![t].reply = "refreshed", ![t].pc = "done"]
    /\ UNCHANGED <<connections, credOK, account, clock, holdings, positions,
                   funds, orders, trades, instruments, meta, embJobs, events,
                   lastSync, emb, answer>>
    /\ UNCHANGED <<convVars, loginVars>>

\* ---------------------------------------------------- handle_done_command
\* the request token has been exchanged for an access token
StartLogin(u) ==
    /\ ~Running("req")
    /\ clock' = clock + 1
    /\ events > 0
    /\ events' = events - 1
    /\ task' = [Disturbed(task) EXCEPT !["req"] =
                    [IdleTask EXCEPT !.kind = "login", !.pc = "l_save", !.user = u,
                                     !.quiet = OthersIdle("req")]]
    /\ UNCHANGED <<connections, credOK, account, holdings, positions,
                   funds, orders, trades, instruments, meta, embJobs, faults, lastSync>>
    /\ UNCHANGED <<embVars, convVars, loginVars>>

\* connections.update_one(..., {"$set": {accessToken, enabled: True, ...}},
\* upsert=True), then run_incremental_sync(db, user_id)
LoginSave(t) ==
    /\ task[t].pc = "l_save"
    /\ LET u == task[t].user IN
       /\ connections' = [connections EXCEPT ![u] =
                             [exists |-> TRUE, enabled |-> TRUE, real |-> TRUE]]
       /\ credOK' = [credOK EXCEPT ![u] = TRUE]
       /\ task' = [task EXCEPT ![t] = BeginSync(@, t, u, FALSE, TRUE)]
    /\ UNCHANGED <<account, clock, holdings, positions, funds, orders, trades,
                   instruments, meta, embJobs, events, faults, lastSync>>
    /\ UNCHANGED <<embVars, convVars, loginVars>>

\* await build_embeddings_for_user(db, user_id), then the reply
LoginEmbeddings(t) ==
    /\ task[t].pc = "l_emb"
    /\ BuildInline(task[t].user)
    /\ task' = [task EXCEPT ![t].reply = "connected", ![t].pc = "done"]
    /\ UNCHANGED <<connections, credOK, account, clock, holdings, positions,
                   funds, orders, trades, instruments, meta, embJobs, events,
                   lastSync, emb, answer>>
    /\ UNCHANGED <<convVars, loginVars>>

\* ------------------------------------------------------------ environment
\* POST /debug/connect-zerodha: the connection is (re)written and enabled;
\* without a usable access token and api key the client is the stub
connect_zerodha(u, real) ==
    /\ events > 0
    /\ events' = events - 1
    /\ connections[u] # [exists |-> TRUE, enabled |-> TRUE, real |-> real]
    /\ connections' = [connections EXCEPT ![u] =
                          [exists |-> TRUE, enabled |-> TRUE, real |-> real]]
    /\ credOK' = [credOK EXCEPT ![u] = real]
    /\ lastSync' = [lastSync EXCEPT ![u] = NoSync]
    /\ UNCHANGED <<task, account, clock, holdings, positions, funds, orders, trades,
                   instruments, meta, embJobs, faults>>
    /\ UNCHANGED <<embVars, convVars, loginVars>>

\* the broker invalidates the access token (daily)
TokenExpires(u) ==
    /\ events > 0
    /\ events' = events - 1
    /\ connections[u].exists /\ connections[u].real /\ credOK[u]
    /\ credOK' = [credOK EXCEPT ![u] = FALSE]
    /\ UNCHANGED <<task, connections, account, clock, holdings, positions, funds, orders,
                   trades, instruments, meta, embJobs, faults, lastSync>>
    /\ UNCHANGED <<embVars, convVars, loginVars>>

\* the user's account at the broker changes (trades, deposits)
AccountChanges(u, a) ==
    /\ events > 0
    /\ events' = events - 1
    /\ a # account[u]
    /\ account' = [account EXCEPT ![u] = a]
    /\ lastSync' = [lastSync EXCEPT ![u] = NoSync]
    /\ UNCHANGED <<task, connections, credOK, clock, holdings, positions, funds, orders,
                   trades, instruments, meta, embJobs, faults>>
    /\ UNCHANGED <<embVars, convVars, loginVars>>


AllIdle == \A t \in Tasks : ~Running(t)

\* the steps of the executions in progress
SyncStep(t) ==
    \/ SyncConnection(t) \/ SyncFunds(t) \/ SyncHoldings(t) \/ SyncPositions(t)
    \/ SyncOrders(t) \/ SyncTrades(t) \/ SyncReturn(t) \/ Finish(t)

RefreshStep(t) ==
    \/ RefreshCheck(t) \/ RefreshDisable(t) \/ RefreshDelete(t) \/ RefreshInsert(t)
    \/ RefreshEmbeddings(t)

LoginStep(t) == LoginSave(t) \/ LoginEmbeddings(t)

Step(t) == SyncStep(t) \/ RefreshStep(t) \/ LoginStep(t)

\* One execution at a time: the requests, the cron ticks and the changes of
\* the environment arrive while nothing is running.
Next ==
    \/ AllIdle /\ StartJob
    \/ JobList
    \/ JobNext
    \/ \E u \in Users : AllIdle /\ StartManual(u, FALSE, TRUE)
    \/ \E u \in Users : AllIdle /\ StartRefresh(u)
    \/ \E u \in Users : AllIdle /\ StartLogin(u)
    \/ \E t \in Tasks : Step(t)
    \/ \E u \in Users, real \in BOOLEAN : AllIdle /\ connect_zerodha(u, real)
    \/ \E u \in Users : AllIdle /\ TokenExpires(u)
    \/ \E u \in Users, a \in Accounts : AllIdle /\ AccountChanges(u, a)

Spec == Init /\ [][Next]_vars

\* ---------------------------------------------------------------- faults
\* u1 is connected with a live token; the broker, the payload and the store
\* may fail up to MaxFaults times during the executions that follow.
InitFaults ==
    /\ connections = [u \in Users |->
                        IF u = "u1" THEN [exists |-> TRUE, enabled |-> TRUE, real |-> TRUE]
                        ELSE NoConnection]
    /\ credOK \in {c \in [Users -> BOOLEAN] : ~c["u2"]}
    /\ account \in {a \in [Users -> Accounts] : a["u2"] = "P1"}
    /\ clock = 0
    /\ holdings = <<>> /\ positions = <<>> /\ funds = <<>>
    /\ orders = <<>> /\ trades = <<>> /\ instruments = <<>>
    /\ meta \in {-1, 0}
    /\ embJobs = <<>>
    /\ task = [t \in Tasks |-> IdleTask]
    /\ events = FaultRuns
    /\ faults = MaxFaults
    /\ lastSync = [u \in Users |-> NoSync]
    /\ embeddings = <<>>
    /\ emb = IdleBuild
    /\ answer = NoAnswer
    /\ NoConversation

NextFaults ==
    \/ \E force \in BOOLEAN, skip \in BOOLEAN : AllIdle /\ StartManual("u1", force, skip)
    \/ AllIdle /\ StartRefresh("u1")
    \/ \E t \in Tasks : SyncStep(t)
    \/ \E t \in Tasks : RefreshStep(t)
    \/ \E t \in Tasks : SyncInstruments(t)

SpecFaults == InitFaults /\ [][NextFaults]_vars

\* ----------------------------------------------------------- concurrency
\* Both users are connected; the cron tick and the requests arrive at any
\* time, also while another execution is in progress.
InitRace ==
    /\ connections = [u \in Users |-> [exists |-> TRUE, enabled |-> TRUE, real |-> TRUE]]
    /\ credOK \in {c \in [Users -> BOOLEAN] : c["u1"]}
    /\ account = [u \in Users |-> "P2"]
    /\ clock = 0
    /\ holdings = <<>> /\ positions = <<>> /\ funds = <<>>
    /\ orders = <<>> /\ trades = <<>> /\ instruments = <<>>
    /\ meta = -1
    /\ embJobs = <<>>
    /\ task = [t \in Tasks |-> IdleTask]
    /\ events = RaceRuns
    /\ faults = 0
    /\ lastSync = [u \in Users |-> NoSync]
    /\ embeddings = <<>>
    /\ emb = IdleBuild
    /\ answer = NoAnswer
    /\ NoConversation

NextRace ==
    \/ StartJob
    \/ JobList
    \/ JobNext
    \/ \E u \in Users : StartManual(u, FALSE, TRUE)
    \/ \E u \in Users : StartRefresh(u)
    \/ \E u \in Users : StartLogin(u)
    \/ \E t \in Tasks : Step(t)

SpecRace == InitRace /\ [][NextRace]_vars

\* ------------------------------------------------- embeddings and queries
\* POST /debug/embed-text {userId, kind, docId, text}
debug_embed_text(u, kind, doc_id, text) ==
    /\ events > 0
    /\ events' = events - 1
    /\ answer' = NoAnswer
    /\ embeddings' = insert_embedding(embeddings, u, kind, doc_id, text)
    /\ UNCHANGED <<connections, credOK, account, clock, holdings, positions, funds,
                   orders, trades, instruments, meta, embJobs, task, faults, lastSync,
                   emb>>
    /\ UNCHANGED <<convVars, loginVars>>

\* POST /ask or a WhatsApp question: retrieve_context(db, u, question, k, kind);
\* answer is the response to the request served last
Ask(u, question, k, kind) ==
    \E primary \in {"ok", "raises"}, text \in {"ok", "raises"} :
        /\ emb.pc = "idle"
        /\ answer = NoAnswer
        /\ primary = "ok" => text = "ok"
        /\ answer' = [user |-> u, kind |-> kind, k |-> k, question |-> question,
                      primary |-> primary]
                     @@ retrieve_context(embeddings, u, question, k, kind, primary, text)
        /\ UNCHANGED <<connections, credOK, account, clock, holdings, positions, funds,
                       orders, trades, instruments, meta, embJobs, task, events, faults,
                       lastSync, embeddings, emb>>
        /\ UNCHANGED <<convVars, loginVars>>

\* midnight UTC
DayPasses ==
    /\ events > 0
    /\ events' = events - 1
    /\ answer' = NoAnswer
    /\ clock' = clock + 1
    /\ UNCHANGED <<connections, credOK, account, holdings, positions, funds,
                   orders, trades, instruments, meta, embJobs, task, faults, lastSync,
                   embeddings, emb>>
    /\ UNCHANGED <<convVars, loginVars>>

\* a user whose rows were synced from the broker, one without any row
InitEmb ==
    /\ connections = [u \in Users |->
                        IF u = "u1" THEN [exists |-> TRUE, enabled |-> TRUE, real |-> TRUE]
                        ELSE NoConnection]
    /\ credOK = [u \in Users |-> u = "u1"]
    /\ account = [u \in Users |-> "P2"]
    /\ clock = 0
    /\ holdings = upsert_holdings(<<>>, "u1",
                                  map_holdings(RealAccount("u1", "P2").holdings, 0))
    /\ positions = upsert_positions(<<>>, "u1",
                                    map_positions(RealAccount("u1", "P2").positions, 0))
    /\ funds = upsert_funds(<<>>, "u1", map_funds(RealAccount("u1", "P2").funds, 0))
    /\ orders = upsert_orders(<<>>, "u1", map_orders(RealAccount("u1", "P2").orders))
    /\ trades = upsert_trades(<<>>, "u1", trade_history(RealAccount("u1", "P2").orders))
    /\ instruments = <<>>
    /\ meta = -1
    /\ embJobs = <<>>
    /\ task = [t \in Tasks |-> IdleTask]
    /\ events = EmbEvents
    /\ faults = EmbFaults
    /\ lastSync = [u \in Users |-> NoSync]
    /\ embeddings = <<>>
    /\ emb = IdleBuild
    /\ answer = NoAnswer
    /\ NoConversation

NextEmb ==
    \/ \E u \in Users : generate_embeddings_manually(u)
    \/ BuildStep
    \/ \E d \in {<<"portfolio", 0>>, <<"note", 0>>} :
         debug_embed_text("u1", "portfolio_summary", d, PortfolioText)
    \/ debug_embed_text("u2", "portfolio_summary", <<"note", 0>>, FundsText)
    \/ DayPasses
    \/ \E u \in Users, q \in {PortfolioText, FundsText}, k \in 1..MaxK,
          kind \in {None, "portfolio_summary", "funds_summary"} : Ask(u, q, k, kind)

SpecEmb == InitEmb /\ [][NextEmb]_vars

\* ------------------------------------------------ payloads of any type
\* u1 is connected with a live token and an account whose payload nests
\* dates, aware datetimes and Decimals; u2 is connected without a token; the
\* instruments were never fetched or were fetched on day 0, and it is day 0
\* or day 4
InitSafe ==
    /\ connections = [u \in Users |-> [exists |-> TRUE, enabled |-> TRUE, real |-> u = "u1"]]
    /\ credOK = [u \in Users |-> u = "u1"]
    /\ account \in {a \in [Users -> {"P2", "P3"}] : a["u2"] = "P2"}
    /\ clock \in {0, 4}
    /\ holdings = <<>> /\ positions = <<>> /\ funds = <<>>
    /\ orders = <<>> /\ trades = <<>>
    /\ \/ meta = -1 /\ instruments = <<>>
       \/ meta = 0 /\ instruments = upsert_instruments(<<>>, map_instruments(RawInstruments))
    /\ embJobs = <<>>
    /\ task = [t \in Tasks |-> IdleTask]
    /\ events = SafeRuns
    /\ faults \in {0, 1}
    /\ lastSync = [u \in Users |-> NoSync]
    /\ embeddings = <<>>
    /\ emb = IdleBuild
    /\ answer = NoAnswer
    /\ NoConversation

NextSafe ==
    \/ \E u \in Users, force \in BOOLEAN : AllIdle /\ StartManual(u, force, TRUE)
    \/ \E u \in Users : AllIdle /\ StartRefresh(u)
    \/ \E t \in Tasks : SyncStep(t)
    \/ \E t \in Tasks : RefreshStep(t)
    \/ \E t \in Tasks : SyncInstruments(t)

SpecSafe == InitSafe /\ [][NextSafe]_vars

\* ------------------------------------------------- pending request tokens
Tokens == {"r1", "r2"}
TokenTTL == 300

HasToken(tt, tok) == \E i \in 1..Len(tt) : tt[i].token = tok

\* temp_tokens[request_token] = {"phone": None, "timestamp": now, "used": False}:
\* a key the dict already holds keeps its position and loses its old value
StoreToken(tt, tok, now) ==
    LET data == [token |-> tok, phone |-> None, timestamp |-> now, used |-> FALSE]
    IN IF HasToken(tt, tok)
       THEN [i \in 1..Len(tt) |-> IF tt[i].token = tok THEN data ELSE tt[i]]
       ELSE Append(tt, data)

\* GET /auth/callback?request_token=...&status=success
auth_callback(tok) ==
    /\ events > 0
    /\ events' = events - 1
    /\ temp_tokens' = StoreToken(temp_tokens, tok, clock)
    /\ UNCHANGED <<clock, exchanged, portfolioVars, embVars, convVars>>

\* the loop over temp_tokens.items(): the most recent unused token younger
\* than TokenTTL seconds, the first one stored among equals
RECURSIVE FindToken(_, _, _, _)
FindToken(tt, now, request_token, newest_timestamp) ==
    IF tt = <<>> THEN request_token
    ELSE LET data == Head(tt)
             age == now - data.timestamp
         IN IF ~data.used /\ age < TokenTTL /\ data.timestamp > newest_timestamp
            THEN FindToken(Tail(tt), now, data.token, data.timestamp)
            ELSE FindToken(Tail(tt), now, request_token, newest_timestamp)

\* temp_tokens[request_token]['used'] = True; ...['phone'] = phone
ClaimToken(tt, tok, phone) ==
    [i \in 1..Len(tt) |->
        IF tt[i].token = tok THEN [tt[i] EXCEPT !.used = TRUE, !.phone = phone]
        ELSE tt[i]]

\* handle_done_command up to its first await: the token is chosen, marked and
\* exchanged at the broker, which accepts or rejects it; the part that follows
\* an accepted token is the coroutine of StartLogin
handle_done_command(u) ==
    /\ ~Running("req")
    /\ events > 0
    /\ events' = events - 1
    /\ clock' = clock + 1
    /\ LET request_token == FindToken(temp_tokens, clock, None, 0) IN
       IF request_token = None
       THEN /\ task' = [Disturbed(task) EXCEPT !["req"] =
                           [IdleTask EXCEPT !.kind = "login", !.pc = "done", !.user = u,
                                            !.reply = "no-login",
                                            !.quiet = OthersIdle("req")]]
            /\ UNCHANGED loginVars
       ELSE /\ temp_tokens' = ClaimToken(temp_tokens, request_token, u)
            /\ exchanged' = Append(exchanged, [token |-> request_token, user |-> u,
                                               at |-> clock])
            /\ \E accepted \in BOOLEAN :
                 task' = [Disturbed(task) EXCEPT !["req"] =
                             IF accepted
                             THEN [IdleTask EXCEPT !.kind = "login", !.pc = "l_save",
                                                   !.user = u,
                                                   !.quiet = OthersIdle("req")]
                             ELSE [IdleTask EXCEPT !.kind = "login", !.pc = "done",
                                                   !.user = u, !.reply = "auth-failed",
                                                   !.quiet = OthersIdle("req")]]
    /\ UNCHANGED <<connections, credOK, account, holdings, positions,
                   funds, orders, trades, instruments, meta, embJobs, faults, lastSync>>
    /\ UNCHANGED <<embVars, convVars>>

\* seconds go by between the requests
TimePasses(d) ==
    /\ events > 0
    /\ events' = events - 1
    /\ clock' = clock + d
    /\ UNCHANGED <<portfolioVars, embVars, convVars, loginVars>>

\* Nobody is connected; callbacks arrive, users type "done", and a callback
\* may arrive while a command is at one of its awaits. The clock counts the
\* seconds of the epoch.
InitLogin ==
    /\ connections = [u \in Users |-> NoConnection]
    /\ credOK = [u \in Users |-> FALSE]
    /\ account = [u \in Users |-> "P2"]
    /\ clock = 1000
    /\ holdings = <<>> /\ positions = <<>> /\ funds = <<>>
    /\ orders = <<>> /\ trades = <<>> /\ instruments = <<>>
    /\ meta = -1
    /\ embJobs = <<>>
    /\ task = [t \in Tasks |-> IdleTask]
    /\ events = MaxLogin
    /\ faults = 0
    /\ lastSync = [u \in Users |-> NoSync]
    /\ embeddings = <<>>
    /\ emb = IdleBuild
    /\ answer = NoAnswer
    /\ NoConversation

NextLogin ==
    \/ \E tok \in Tokens : auth_callback(tok)
    \/ \E u \in Users : handle_done_command(u)
    \/ \E d \in {100, 200} : TimePasses(d)
    \/ \E t \in Tasks : SyncStep(t)
    \/ \E t \in Tasks : LoginStep(t)

SpecLogin == InitLogin /\ [][NextLogin]_vars

\* --------------------------------------------- summaries of stored rows
\* POST /debug/seed-trades: insert_many of documents that carry userId, symbol,
\* qty, price and ts, and nothing else
SeedTrade(t) ==
    [userId |-> t.userId, symbol |-> t.symbol, qty |-> t.qty, price |-> t.price,
     ts |-> t.ts]

debug_seed_trades(req) ==
    /\ emb.pc = "idle"
    /\ events > 0
    /\ events' = events - 1
    /\ trades' = trades \o [i \in 1..Len(req) |-> SeedTrade(req[i])]
    /\ answer' = NoAnswer
    /\ UNCHANGED <<connections, credOK, account, clock, holdings, positions, funds,
                   orders, meta, instruments, embJobs, task, faults, lastSync,
                   embeddings, emb>>
    /\ UNCHANGED <<convVars, loginVars>>

\* what the broker reports for the holdings of a user
HoldingsReported ==
    { << RawHolding("A", 10, 100, 110), RawHolding("B", 5, 200, 190),
         RawHolding("C", 20, 50, 55) >>,
      << RawHolding("A", 12, 100, 120), RawHolding("B", 5, 200, 190) >>,
      << RawHolding("A", 10, 0, 110) >>,
      << RawHolding("A", 3, 100, 90) >>,
      <<>> }

\* the filled orders of one month: two buys and a sell
OrdersReported ==
    << RawOrder("O1", "A", "BUY", 10, 10, 100, "COMPLETE", Aware(25, 0)),
       RawOrder("O2", "B", "BUY", 5, 5, 50, "COMPLETE", Aware(26, 0)),
       RawOrder("O3", "A", "SELL", 8, 8, 120, "COMPLETE", Aware(27, 0)) >>

\* the requests sent to the seeding endpoint
SeedRequests ==
    { << [userId |-> "u1", symbol |-> "A", qty |-> 3, price |-> 10, ts |-> Naive(t)] >> :
        t \in {10, 28} }

\* a user whose holdings and trades were synced from the broker, on a day
\* within the month of the trades or some months later
InitSums ==
    /\ connections = [u \in Users |->
                        IF u = "u1" THEN [exists |-> TRUE, enabled |-> TRUE, real |-> TRUE]
                        ELSE NoConnection]
    /\ credOK = [u \in Users |-> u = "u1"]
    /\ account = [u \in Users |-> "P2"]
    /\ clock \in {29, 206}
    /\ \E raw \in HoldingsReported :
          holdings = upsert_holdings(<<>>, "u1", map_holdings(raw, 0))
    /\ positions = <<>>
    /\ funds = upsert_funds(<<>>, "u1", map_funds(RealAccount("u1", "P2").funds, 0))
    /\ orders = upsert_orders(<<>>, "u1", map_orders(OrdersReported))
    /\ trades = upsert_trades(<<>>, "u1", trade_history(OrdersReported))
    /\ instruments = <<>>
    /\ meta = -1
    /\ embJobs = <<>>
    /\ task = [t \in Tasks |-> IdleTask]
    /\ events = EmbEvents
    /\ faults = 0
    /\ lastSync = [u \in Users |-> NoSync]
    /\ embeddings = <<>>
    /\ emb = IdleBuild
    /\ answer = NoAnswer
    /\ NoConversation

NextSums ==
    \/ \E u \in Users : generate_embeddings_manually(u)
    \/ BuildStep
    \/ \E req \in SeedRequests : debug_seed_trades(req)
    \/ DayPasses

SpecSums == InitSums /\ [][NextSums]_vars

\* refresh requests of one user and the embedding jobs they schedule
InitJobs ==
    /\ connections = [u \in Users |->
                        IF u = "u1" THEN [exists |-> TRUE, enabled |-> TRUE, real |-> TRUE]
                        ELSE NoConnection]
    /\ credOK = [u \in Users |-> u = "u1"]
    /\ account = [u \in Users |-> "P2"]
    /\ clock = 0
    /\ holdings = <<>> /\ positions = <<>> /\ funds = <<>>
    /\ orders = <<>> /\ trades = <<>> /\ instruments = <<>>
    /\ meta = -1
    /\ embJobs = <<>>
    /\ task = [t \in Tasks |-> IdleTask]
    /\ events = JobRuns
    /\ faults = 0
    /\ lastSync = [u \in Users |-> NoSync]
    /\ embeddings = <<>>
    /\ emb = IdleBuild
    /\ answer = NoAnswer
    /\ NoConversation

NextJobs ==
    \/ \E u \in Users, skip \in BOOLEAN : AllIdle /\ StartManual(u, FALSE, skip)
    \/ SyncStep("req")
    \/ run_embeddings_job
    \/ BuildStep

SpecJobs == InitJobs /\ [][NextJobs]_vars

\* two requests of the refresh endpoint in progress at once, the one-shot
\* jobs they add and the builds the jobs run
InitEnqueue ==
    /\ connections = [u \in Users |->
                        IF u = "u1" THEN [exists |-> TRUE, enabled |-> TRUE, real |-> TRUE]
                        ELSE NoConnection]
    /\ credOK = [u \in Users |-> u = "u1"]
    /\ account = [u \in Users |-> "P2"]
    /\ clock = 0
    /\ holdings = <<>> /\ positions = <<>> /\ funds = <<>>
    /\ orders = <<>> /\ trades = <<>> /\ instruments = <<>>
    /\ meta = -1
    /\ embJobs = <<>>
    /\ task = [t \in Tasks |-> IdleTask]
    /\ events = JobRuns
    /\ faults = 0
    /\ lastSync = [u \in Users |-> NoSync]
    /\ embeddings = <<>>
    /\ emb = IdleBuild
    /\ answer = NoAnswer
    /\ NoConversation

NextEnqueue ==
    \/ \E t \in {"req", "req2"}, u \in Users, skip \in BOOLEAN :
          StartManualOn(t, u, FALSE, skip)
    \/ \E t \in Tasks : SyncStep(t)
    \/ run_embeddings_job
    \/ BuildStep

SpecEnqueue == InitEnqueue /\ [][NextEnqueue]_vars

\* --------------------------------------- syncs and the rebuilds after them
\* the periodic job and the refresh endpoint, one at a time, with the
\* one-shot embedding jobs; the event loop runs every coroutine that can
\* take a step and the scheduler runs every job that is due
NextLive ==
    \/ AllIdle /\ StartJob
    \/ JobList
    \/ JobNext
    \/ \E u \in Users, skip \in BOOLEAN : AllIdle /\ StartManual(u, FALSE, skip)
    \/ \E t \in Tasks : SyncStep(t)
    \/ run_embeddings_job
    \/ BuildStep

Progress ==
    \/ JobList
    \/ JobNext
    \/ \E t \in Tasks : SyncStep(t)
    \/ run_embeddings_job
    \/ BuildStep

SpecLive == InitJobs /\ [][NextLive]_vars /\ WF_vars(Progress)

\* the periodic job alone, with ticks that may fire while it runs
InitTicks ==
    /\ \E on \in BOOLEAN :
          connections = [u \in Users |->
                           [exists |-> TRUE, enabled |-> (u = "u1" \/ on),
                            real |-> u = "u1"]]
    /\ credOK = [u \in Users |-> TRUE]
    /\ account = [u \in Users |-> "P1"]
    /\ clock = 0
    /\ holdings = <<>> /\ positions = <<>> /\ funds = <<>>
    /\ orders = <<>> /\ trades = <<>> /\ instruments = <<>>
    /\ meta = -1
    /\ embJobs = <<>>
    /\ task = [t \in Tasks |-> IdleTask]
    /\ events = MaxTicks
    /\ faults = 1
    /\ lastSync = [u \in Users |-> NoSync]
    /\ embeddings = <<>>
    /\ emb = IdleBuild
    /\ answer = NoAnswer
    /\ NoConversation

NextTicks ==
    \/ StartJob
    \/ SkipTick
    \/ JobList
    \/ JobNext
    \/ SyncConnection("job") \/ SyncFunds("job") \/ SyncHoldings("job")
    \/ SyncPositions("job") \/ SyncOrders("job") \/ SyncTrades("job")
    \/ SyncReturn("job")
    \/ JobSyncRaises

SpecTicks == InitTicks /\ [][NextTicks]_vars

\* ------------------------------------------------- conversation requests
ChatsIdle == \A c \in Chats : chat[c].pc = "idle"

\* handle_message_with_context: the question and the answer are stored, then
\* check_conversation_milestone runs
handle_message_with_context(c, u) ==
    /\ chat[c].pc = "idle"
    /\ events > 0
    /\ events' = events - 1
    /\ messages' = insert_exchange(messages, u, "question", "answer", clock)
    /\ clock' = clock + 1
    /\ chat' = [chat EXCEPT ![c] = [IdleChat EXCEPT !.pc = "m_count", !.user = u]]
    /\ context' = NoContext
    /\ UNCHANGED <<watermark, notified, portfolioVars, embVars, loginVars>>

\* count = await get_message_count(db, user_id); if count in MILESTONE_NOTIFICATIONS
MilestoneCount(c) ==
    /\ chat[c].pc = "m_count"
    /\ LET count == get_message_count(messages, chat[c].user)
       IN chat' = [chat EXCEPT ![c] = IF AtMilestone(count)
                                      THEN [@ EXCEPT !.pc = "m_user", !.count = count]
                                      ELSE IdleChat]
    /\ UNCHANGED <<messages, watermark, context, notified, clock, events,
                   portfolioVars, embVars, loginVars>>

\* user = await db["users"].find_one(...); if count > last_notified
MilestoneUser(c) ==
    /\ chat[c].pc = "m_user"
    /\ LET last_notified == watermark[chat[c].user]
       IN chat' = [chat EXCEPT ![c] = IF chat[c].count > last_notified
                                      THEN [@ EXCEPT !.pc = "m_update"]
                                      ELSE IdleChat]
    /\ UNCHANGED <<messages, watermark, context, notified, clock, events,
                   portfolioVars, embVars, loginVars>>

\* update_one({$set: {lastMilestoneNotified: count}}) and the notification
\* for count is returned
MilestoneNotify(c) ==
    /\ chat[c].pc = "m_update"
    /\ watermark' = [watermark EXCEPT ![chat[c].user] = chat[c].count]
    /\ notified' = Append(notified, [user |-> chat[c].user, milestone |-> chat[c].count])
    /\ chat' = [chat EXCEPT ![c] = IdleChat]
    /\ UNCHANGED <<messages, context, clock, events, portfolioVars, embVars, loginVars>>

\* start_new_session: the user's messages without an archived field are marked
start_new_session(c, u) ==
    /\ chat[c].pc = "idle"
    /\ events > 0
    /\ events' = events - 1
    /\ messages' = archive_messages(messages, u, clock)
    /\ clock' = clock + 1
    /\ chat' = [chat EXCEPT ![c] = [IdleChat EXCEPT !.pc = "n_user", !.user = u,
                                                    !.before = messages]]
    /\ context' = NoContext
    /\ UNCHANGED <<watermark, notified, portfolioVars, embVars, loginVars>>

\* update_one({"_id": user_id}, {$set: {..., lastMilestoneNotified: 0}})
SessionReset(c) ==
    /\ chat[c].pc = "n_user"
    /\ watermark' = [watermark EXCEPT ![chat[c].user] = 0]
    /\ chat' = [chat EXCEPT ![c] = IdleChat]
    /\ UNCHANGED <<messages, context, notified, clock, events, portfolioVars, embVars, loginVars>>

\* POST /ask and handle_question: get_conversation_context(db, u, max_tokens)
GetContext(u, max_tokens) ==
    \E tie1 \in {"first", "last"}, tie2 \in {"first", "last"} :
        /\ ChatsIdle
        /\ context = NoContext
        /\ context' = [user |-> u, max_tokens |-> max_tokens]
                      @@ get_conversation_context(messages, u, max_tokens, tie1, tie2)
        /\ UNCHANGED <<messages, watermark, chat, notified, clock, events,
                       portfolioVars, embVars, loginVars>>

ChatStep(c) ==
    MilestoneCount(c) \/ MilestoneUser(c) \/ MilestoneNotify(c) \/ SessionReset(c)

\* nothing synced, nothing stored
InitConv ==
    /\ connections = [u \in Users |-> NoConnection]
    /\ credOK = [u \in Users |-> FALSE]
    /\ account = [u \in Users |-> "P2"]
    /\ clock = 0
    /\ holdings = <<>> /\ positions = <<>> /\ funds = <<>>
    /\ orders = <<>> /\ trades = <<>> /\ instruments = <<>>
    /\ meta = -1
    /\ embJobs = <<>>
    /\ task = [t \in Tasks |-> IdleTask]
    /\ events = MaxExchanges
    /\ faults = 0
    /\ lastSync = [u \in Users |-> NoSync]
    /\ embeddings \in {<<>>, insert_embedding(<<>>, "u1", "portfolio_summary",
                                              <<"note", 0>>, PortfolioText)}
    /\ emb = IdleBuild
    /\ answer = NoAnswer
    /\ NoConversation

\* the requests of two users, one at a time
NextConv ==
    \/ \E u \in Users : ChatsIdle /\ handle_message_with_context("c1", u)
    \/ \E u \in Users : ChatsIdle /\ start_new_session("c1", u)
    \/ ChatStep("c1")
    \/ \E u \in Users, max_tokens \in Budgets : GetContext(u, max_tokens)

SpecConv == InitConv /\ [][NextConv]_vars

\* the requests of one user on two channels, interleaved at their awaits
NextChat ==
    \/ \E c \in Chats : handle_message_with_context(c, "u1")
    \/ \E c \in Chats : start_new_session(c, "u1")
    \/ \E c \in Chats : ChatStep(c)

SpecChat == InitConv /\ [][NextChat]_vars

\* ------------------------------------------------------------ properties
Resources == {"funds", "holdings", "positions", "orders", "trades"}

\* the broker resource a block of run_incremental_sync fetches
Fetched(block) == IF block = "trades" THEN "orders" ELSE block

FetchFailed(tk) ==
    {Fetched(tk.outs[i].block) : i \in {j \in 1..Len(tk.outs) : tk.outs[j].kind = "fetch_fault"}}

OnlyFetchFaults(tk) ==
    \A i \in 1..Len(tk.outs) : tk.outs[i].kind \in {"ok", "fetch_fault"}

Reported(tk, doc, err) ==
    \E i \in 1..Len(tk.changed) : tk.changed[i].doc = doc /\ tk.changed[i].error = err

Errors(tk) == Cardinality({i \in 1..Len(tk.changed) : tk.changed[i].error})
Failed(tk) == Cardinality({i \in 1..Len(tk.outs) : tk.outs[i].kind # "ok"})

Returned(tk) == tk.pc = "s_ret" /\ tk.note = None

\* C1: when exactly one of the five resources fails to fetch during a sync,
\* the result reports an error for that resource and success, and no error,
\* for each of the other four.
C1_OneFetchFailureIsolated ==
    \A t \in Tasks : \A r \in Resources :
        (Returned(task[t]) /\ OnlyFetchFaults(task[t]) /\ FetchFailed(task[t]) = {r})
        => /\ Reported(task[t], r, TRUE)
           /\ \A q \in Resources \ {r} :
                Reported(task[t], q, FALSE) /\ ~Reported(task[t], q, TRUE)

\* C2: a sync whose credential the broker rejects ends with the auth-expired
\* result, the connection disabled, no per-resource entry and no resource
\* fetched.
C2_RejectedCredentialEndsAuthExpired ==
    \A t \in Tasks :
        (task[t].pc = "s_ret" /\ task[t].note # "no-connection"
         /\ task[t].real /\ ~credOK[task[t].user])
        => /\ task[t].note = "auth-expired"
           /\ ~connections[task[t].user].enabled
           /\ task[t].changed = <<>>
           /\ task[t].calls \subseteq {"profile"}

\* C3: a sync of a user without an enabled connection (none, or a disabled
\* one) returns in its first step with the no-connection marker and an empty
\* list, has called no broker endpoint and leaves every collection as it was.
C3_NoConnectionReturnsAtOnce ==
    [][\A t \in Tasks :
          (/\ task[t].pc = "s_conn"
           /\ task'[t].pc # "s_conn"
           /\ ~(connections[task[t].user].exists /\ connections[task[t].user].enabled))
          => /\ task'[t].pc = "s_ret"
             /\ task'[t].note = "no-connection"
             /\ task'[t].changed = <<>>
             /\ task'[t].calls = {}
             /\ task'[t].writes = 0
             /\ UNCHANGED <<connections, holdings, positions, funds, orders, trades,
                            instruments, meta, embJobs>>]_vars

C3_Witness ==
    \E t \in Tasks :
        /\ task[t].pc = "s_ret" /\ task[t].note = "no-connection"
        /\ connections[task[t].user].exists
        /\ ~connections[task[t].user].enabled

\* C4: a sync of a connected user never leaves run_incremental_sync by an
\* exception, whatever fetches, payloads and upserts fail, and the result it
\* returns holds one error entry for every block that failed, under the
\* block's own name (under "orders" for the block that derives the trades
\* from the orders).
C4_SyncNeverRaises ==
    \A t \in Tasks :
        /\ task[t].pc # "s_raised"
        /\ Returned(task[t]) =>
             /\ Errors(task[t]) = Failed(task[t])
             /\ \A i \in 1..Len(task[t].outs) :
                  task[t].outs[i].kind # "ok"
                  => Reported(task[t], Fetched(task[t].outs[i].block), TRUE)

C4_Witness ==
    \E t \in Tasks :
        /\ Returned(task[t])
        /\ Failed(task[t]) >= 2
        /\ \E i \in 1..Len(task[t].outs) : task[t].outs[i].kind = "upsert_fault"
        /\ \E i \in 1..Len(task[t].outs) :
             task[t].outs[i].kind \in {"fetch_fault", "map_fault"}

\* a row without its write time
WithoutUpdatedAt(row) == [f \in DOMAIN row \ {"updatedAt"} |-> row[f]]
Timeless(rows) == [i \in 1..Len(rows) |-> WithoutUpdatedAt(rows[i])]
TimelessSnapshot(snap) ==
    [holdings |-> Timeless(snap.holdings), positions |-> Timeless(snap.positions),
     funds |-> Timeless(snap.funds)]

Keys(rows, fields) == {KeyOf(fields, rows[i]) : i \in 1..Len(rows)}
OneRowPerKey(rows, fields) ==
    \A i, j \in 1..Len(rows) : KeyOf(fields, rows[i]) = KeyOf(fields, rows[j]) => i = j

\* a clean sync that follows a clean sync of the same user, with the upstream
\* data and the user's rows untouched in between
Resynced(tk) == CleanSync(tk) /\ tk.follows

\* C5 as stated: after the second of two consecutive syncs against unchanged
\* upstream data the holdings, positions and funds rows of the user are
\* exactly those left by the first sync, field for field.
C5_ResyncLeavesIdenticalRows ==
    \A t \in Tasks : Resynced(task[t]) => Snapshot(task[t].user) = task[t].before

\* C5 as amended: after the second of two consecutive syncs against unchanged
\* upstream data the user has the same rows as after the first one, one row
\* per key and none added, with identical values in every field except
\* updatedAt.
C5_ResyncLeavesSameRowsButUpdatedAt ==
    \A t \in Tasks :
        Resynced(task[t])
        => /\ TimelessSnapshot(Snapshot(task[t].user)) = TimelessSnapshot(task[t].before)
           /\ OneRowPerKey(RowsOf(holdings, task[t].user), HoldingsKey)
           /\ OneRowPerKey(RowsOf(positions, task[t].user), PositionsKey)
           /\ OneRowPerKey(RowsOf(funds, task[t].user), FundsKey)

C5_Witness ==
    \E t \in Tasks :
        /\ Resynced(task[t])
        /\ Len(task[t].before.holdings) > 1
        /\ Len(task[t].before.positions) > 1
        /\ Len(task[t].before.funds) > 1
        /\ Snapshot(task[t].user) # task[t].before

\* the documents a sync of the task's user writes from the current upstream
Written(t) ==
    [holdings |-> [i \in 1..Len(Data(t).holdings) |->
                     Owned(map_holdings(Data(t).holdings, clock)[i], task[t].user)],
     positions |-> LET m == map_positions(Data(t).positions, clock)
                   IN [i \in 1..Len(m) |-> Owned(m[i], task[t].user)],
     funds |-> LET m == map_funds(Data(t).funds, clock)
               IN [i \in 1..Len(m) |-> Owned(m[i], task[t].user)]]

\* C6: after a successful sync the holdings, positions and funds rows of the
\* user are exactly the rows the broker returned: no stored key is missing
\* upstream.
C6_StoredKeysAreUpstreamKeys ==
    \A t \in Tasks :
        CleanSync(task[t])
        => /\ Keys(RowsOf(holdings, task[t].user), HoldingsKey)
                = Keys(Written(t).holdings, HoldingsKey)
           /\ Keys(RowsOf(positions, task[t].user), PositionsKey)
                = Keys(Written(t).positions, PositionsKey)
           /\ Keys(RowsOf(funds, task[t].user), FundsKey)
                = Keys(Written(t).funds, FundsKey)

NoStaleField(rows, docs, fields) ==
    \A i \in 1..Len(rows) : \A j \in 1..Len(docs) :
        KeyOf(fields, rows[i]) = KeyOf(fields, docs[j])
        => DOMAIN rows[i] \subseteq DOMAIN docs[j]

\* C7: after a successful resync of a key the stored row has no field that
\* the newly written document does not have.
C7_UpsertLeavesNoStaleField ==
    \A t \in Tasks :
        CleanSync(task[t])
        => /\ NoStaleField(RowsOf(holdings, task[t].user), Written(t).holdings, HoldingsKey)
           /\ NoStaleField(RowsOf(positions, task[t].user), Written(t).positions,
                           PositionsKey)
           /\ NoStaleField(RowsOf(funds, task[t].user), Written(t).funds, FundsKey)

\* C8: the orders collection never holds two rows with the same order id, nor
\* the trades collection two rows with the same trade id.
C8_OneRowPerOrderAndTrade ==
    /\ OneRowPerKey(orders, OrdersKey)
    /\ OneRowPerKey(trades, TradesKey)

C8_Witness ==
    \E t \in Tasks :
        /\ Resynced(task[t])
        /\ Len(orders) > 1
        /\ Len(trades) > 0

\* every row stored for user v, in the five per-user collections
OwnedBy(v) ==
    <<RowsOf(holdings, v), RowsOf(positions, v), RowsOf(funds, v),
      RowsOf(orders, v), RowsOf(trades, v)>>

\* C9: a step of a sync or refresh leaves the rows of every user for whom no
\* execution is working exactly as they were.
C9_OtherUsersRowsUntouched ==
    [][\A v \in Users :
          (\A t \in Tasks : task[t].user # v) => OwnedBy(v)' = OwnedBy(v)]_vars

\* an execution of a sync or refresh for a user is in progress
InProgress(t) ==
    task[t].user # None /\ task[t].pc \notin {"idle", "done", "j_list", "j_next"}

\* C10: no two executions of a sync or refresh for the same user are in
\* progress at the same time.
C10_SameUserSerialized ==
    \A t1, t2 \in Tasks :
        (t1 # t2 /\ InProgress(t1) /\ InProgress(t2)) => task[t1].user # task[t2].user

\* C11: an execution of refresh_all_users_job begins only at a tick that
\* finds no execution of it in progress, and a tick that fires while one is
\* in progress is skipped: it leaves that execution where it is and keeps
\* nothing that would run the job once more later.
C11_OverlappingTicksSkipped ==
    [][/\ (task'["job"].pc = "j_list" /\ task["job"].pc # "j_list")
          => (~Running("job") /\ events' = events - 1)
       /\ (events' # events /\ Running("job"))
          => /\ task' = [task EXCEPT !["job"].skipped = @ + 1]
             /\ embJobs' = embJobs]_vars

C11_Witness ==
    /\ task["job"].pc = "s_holdings"
    /\ task["job"].skipped > 0
    /\ Len(task["job"].queue) > 0

SyncPcs == {"s_conn", "s_instr", "s_funds", "s_holdings", "s_positions",
            "s_orders", "s_trades", "s_ret"}

C13_OneDocumentPerKey ==
    \A i, j \in 1..Len(embeddings) :
        EmbeddingKey(embeddings[i]) = EmbeddingKey(embeddings[j]) => i = j

\* C14: build_embeddings_for_user never raises: whichever step fails, the
\* call returns a result whose errors list records the failure and whose
\* created count is the number of summaries indexed before it.
C14_BuildNeverRaises ==
    emb.pc = "e_done"
    => /\ emb.result.outcome = "returned"
       /\ emb.outs # <<>> => emb.result.errors # <<>>
       /\ emb.result.embeddingsCreated = emb.written

\* the documents build_embeddings_for_user has written
Built(col) == SelectSeq(col, LAMBDA d : "meta" \in DOMAIN d)

\* C15: after any number of rebuilds, on one day or on several, a user has at
\* most one portfolio_summary, one funds_summary and one positions_summary
\* document, and at most one trade_history document per calendar month.
C15_OneSummaryPerUserAndKind ==
    LET built == Built(embeddings)
    IN \A i, j \in 1..Len(built) :
          (/\ built[i].userId = built[j].userId
           /\ built[i].kind = built[j].kind
           /\ built[i].kind = "trade_history" => built[i].meta.month = built[j].meta.month)
          => i = j

\* a request for context has been answered, with a list or with an exception
Answered == answer.outcome # None

\* the user asking has no document in the embeddings collection
AskerHasNoDocument == \A i \in 1..Len(embeddings) : embeddings[i].userId # answer.user

C17_PrimaryFailureStillReturns ==
    (Answered /\ answer.primary = "raises") => answer.outcome = "list"

\* C18: the fallback is taken only when the primary query itself fails: when
\* it succeeds the answer is its result, the empty one included.
C18_PrimaryResultReturnedAsIs ==
    (Answered /\ answer.primary = "ok")
    => answer.chunks = Chunks(VectorResults(embeddings, answer.user, answer.kind,
                                            answer.question, answer.k))

\* C19: when the fallback path is taken, the chunks returned are documents of
\* the requested user and kind, as many as there are up to k, with strictly
\* decreasing synthetic scores.
C19_FallbackOfUserAndKindScoresDecreasing ==
    (Answered /\ answer.primary = "raises" /\ answer.outcome = "list")
    => LET wanted == Filtered(embeddings, answer.user, answer.kind)
           chunks == answer.chunks
       IN /\ \A i \in 1..Len(chunks) :
                \E j \in 1..Len(wanted) : /\ wanted[j].docId = chunks[i].docId
                                          /\ wanted[j].chunk = chunks[i].chunk
          /\ Len(chunks) = IF Len(wanted) < answer.k THEN Len(wanted) ELSE answer.k
          /\ \A i, j \in 1..Len(chunks) : i < j => chunks[i].score > chunks[j].score

\* C20: for k >= 1 the list returned has at most k chunks, on every path.
C20_AtMostKChunks ==
    (Answered /\ answer.outcome = "list") => Len(answer.chunks) <= answer.k

\* the documents of one user, as if no other user had stored anything
OwnDocuments(col, uid) == SelectSeq(col, LAMBDA d : d.userId = uid)

\* C21: retrieval is restricted to the requesting user: on every path the
\* chunks returned are those retrieve_context returns from the user's own
\* documents alone, whatever other users have stored.
C21_OnlyOwnDocumentsRetrieved ==
    (Answered /\ answer.outcome = "list")
    => answer.chunks =
         retrieve_context(OwnDocuments(embeddings, answer.user), answer.user,
                          answer.question, answer.k, answer.kind, answer.primary,
                          "ok").chunks

C21_Witness ==
    /\ Answered /\ answer.user = "u2" /\ answer.path = "any"
    /\ Len(answer.chunks) = 1
    /\ \E i \in 1..Len(embeddings) : embeddings[i].userId = "u1"

\* a request for the conversation context has been answered
ContextGiven == context.state # None

\* the messages of the user the context was asked for
Asked == SelectSeq(messages, LAMBDA m : m.userId = context.user)

Chronological(list) == \A i, j \in 1..Len(list) : i < j => list[i].ts <= list[j].ts

NoMessageTwice(list) == \A i, j \in 1..Len(list) : list[i].id = list[j].id => i = j

LatestOfAsked(list) ==
    /\ NoMessageTwice(list)
    /\ \A i \in 1..Len(list) : \E j \in 1..Len(Asked) : Asked[j] = list[i]
    /\ \A j \in 1..Len(Asked) :
          (\A i \in 1..Len(list) : list[i].id # Asked[j].id)
          => \A i \in 1..Len(list) : Asked[j].ts <= list[i].ts

\* n messages fit the budget the context was asked with
Fit(n) == n * TokensPerMessage <= context.max_tokens

RecentWindow(list) ==
    /\ Len(list) = MAX_RECENT_MESSAGES
    /\ LatestOfAsked(list)
    /\ Chronological(list)

\* C24: when the user has more messages than the cap and no older message
\* fits the budget left by the recent window, the state is recent_only and
\* the list is exactly the recent window.
C24_RecentOnlyWhenNothingFits ==
    (ContextGiven /\ Len(Asked) > MAX_RECENT_MESSAGES /\ ~Fit(MAX_RECENT_MESSAGES + 1))
    => (context.state = "recent_only" /\ RecentWindow(context.list))

\* C25: for every threshold and every interleaving of exchanges and session
\* resets of a user, the notification for the threshold is returned at most
\* once, and never while the user's message count is below the threshold.
C25_MilestoneNotifiedOnce ==
    /\ \A i, j \in 1..Len(notified) : notified[i] = notified[j] => i = j
    /\ \A i \in 1..Len(notified) :
          get_message_count(messages, notified[i].user) >= notified[i].milestone

\* a check has read a count past a threshold that is above the watermark and
\* was never notified, and returns without a notification
MissedAt(c) ==
    /\ chat[c].pc = "m_count"
    /\ \E T \in MILESTONE_NOTIFICATIONS :
          /\ get_message_count(messages, chat[c].user) >= T
          /\ T > watermark[chat[c].user]
          /\ \A i \in 1..Len(notified) : notified[i].milestone # T

\* C26: a milestone check that observes a message count at or past a
\* threshold above the stored watermark (here: one never notified before)
\* emits a notification and does not return empty-handed.
C26_PassedThresholdNotified ==
    [][\A c \in Chats : MissedAt(c) => chat'[c].pc # "idle"]_vars

IsArchived(m) == "archived" \in DOMAIN m /\ m.archived

\* C27: when start_new_session completes, every message of the user that had
\* no archived flag before the call is archived, the user's watermark is 0,
\* and the user's message count is what it was before the call.
C27_NewSessionArchivesAndResets ==
    [][\A c \in Chats :
          (chat[c].pc = "n_user" /\ chat'[c].pc = "idle")
          => LET u == chat[c].user
                 before == chat[c].before
             IN /\ watermark'[u] = 0
                /\ get_message_count(messages', u) = get_message_count(before, u)
                /\ \A i \in 1..Len(before) :
                      before[i].userId = u => IsArchived(messages'[i])]_vars

C27_Witness ==
    /\ ChatsIdle
    /\ watermark["u1"] = 0
    /\ \E i \in 1..Len(notified) : notified[i].user = "u1"
    /\ get_message_count(messages, "u1") >= 2
    /\ \A i \in 1..Len(messages) : messages[i].userId = "u1" => IsArchived(messages[i])
    /\ \E i \in 1..Len(messages) : messages[i].userId = "u2"

\* the fields of a message that never change
Immutable(m) == [id |-> m.id, userId |-> m.userId, role |-> m.role, text |-> m.text,
               ts |-> m.ts]

\* C28: messages are write-once: no step deletes a message or changes its
\* user, role, text or timestamp; the archived flag only goes from unset to
\* true; a session reset changes no message of another user and no
\* embeddings document.
C28_MessagesWriteOnce ==
    [][/\ Len(messages') >= Len(messages)
       /\ \A i \in 1..Len(messages) :
             /\ Immutable(messages'[i]) = Immutable(messages[i])
             /\ "archived" \in DOMAIN messages[i] => messages'[i] = messages[i]
             /\ messages'[i] # messages[i] => IsArchived(messages'[i])
       /\ \A c \in Chats :
             (chat[c].pc = "idle" /\ chat'[c].pc = "n_user")
             => /\ embeddings' = embeddings
                /\ \A i \in 1..Len(messages) :
                      messages[i].userId # chat'[c].user => messages'[i] = messages[i]]_vars

C28_Witness ==
    /\ embeddings # <<>>
    /\ \E i, j \in 1..Len(messages) :
          /\ messages[i].userId = "u1" /\ IsArchived(messages[i])
          /\ messages[j].userId = "u2" /\ "archived" \notin DOMAIN messages[j]
          /\ i > j
    /\ \E i \in 1..Len(messages) :
          messages[i].userId = "u1" /\ "archived" \notin DOMAIN messages[i]

\* the summaries build_embeddings_for_user stored, by kind
Summaries(kind) ==
    {i \in 1..Len(embeddings) :
        embeddings[i].kind = kind /\ "meta" \in DOMAIN embeddings[i]}

RECURSIVE Products(_, _, _, _)
\* rows[1][a] * rows[1][b] + ... + rows[n][a] * rows[n][b]
Products(rows, n, a, b) ==
    IF n = 0 THEN 0 ELSE rows[n][a] * rows[n][b] + Products(rows, n - 1, a, b)

\* pct is p / q * 100 to two decimals, in hundredths of a percent
IsPercentOf(pct, p, q) ==
    LET d == pct * q - p * 10000
    IN 2 * (IF d < 0 THEN -d ELSE d) <= q

\* the aggregates of a portfolio summary are those of the stored holdings
AggregatesOf(d) ==
    LET rows == RowsOf(holdings, d.userId)
        investment == Products(rows, Len(rows), "qty", "avgPrice")
        value == Products(rows, Len(rows), "qty", "lastPrice")
    IN /\ d.chunk.investment = investment
       /\ d.chunk.value = value
       /\ d.chunk.pnl = value - investment
       /\ d.meta.totalValue = value
       /\ d.meta.totalPnL = value - investment
       /\ IF investment = 0 THEN d.chunk.pct = 0
          ELSE IsPercentOf(d.chunk.pct, value - investment, investment)

\* the holdings A(10 @ 100, last 110), B(5 @ 200, last 190), C(20 @ 50, last 55)
ExampleHoldings(uid) ==
    {<<h.tradingsymbol, h.qty, h.avgPrice, h.lastPrice>> :
        h \in {RowsOf(holdings, uid)[i] : i \in 1..Len(RowsOf(holdings, uid))}}
    = {<<"A", 10, 100, 110>>, <<"B", 5, 200, 190>>, <<"C", 20, 50, 55>>}

\* C29 as stated: every portfolio summary carries total investment = sum of
\* qty * avgPrice, total value = sum of qty * lastPrice, P&L = value - investment
\* and P&L% = P&L / investment * 100 (0 when the investment is 0), and for the
\* holdings A, B, C of the example these are 2000, 2150 and +150
C29_PortfolioAggregates ==
    \A i \in Summaries("portfolio_summary") :
        /\ AggregatesOf(embeddings[i])
        /\ ExampleHoldings(embeddings[i].userId)
           => /\ embeddings[i].chunk.investment = 2000
              /\ embeddings[i].chunk.value = 2150
              /\ embeddings[i].chunk.pnl = 150

\* C29 with the example's arithmetic done: the same sums, and for the holdings
\* A, B, C of the example total investment 3000, total value 3150, P&L +150,
\* which is +5.00%
C29_PortfolioAggregatesOfExample ==
    \A i \in Summaries("portfolio_summary") :
        /\ AggregatesOf(embeddings[i])
        /\ ExampleHoldings(embeddings[i].userId)
           => /\ embeddings[i].chunk.investment = 3000
              /\ embeddings[i].chunk.value = 3150
              /\ embeddings[i].chunk.pnl = 150
              /\ embeddings[i].chunk.pct = 500

\* a summary of the example's holdings has been stored
C29_Witness ==
    \E i \in Summaries("portfolio_summary") :
        /\ ExampleHoldings(embeddings[i].userId)
        /\ embeddings[i].meta.holdingsCount = 3

\* the members of a sequence
Range(seq) == {seq[i] : i \in 1..Len(seq)}

\* the stored trades of a user in a calendar month
TradesOfMonth(uid, m) ==
    SelectSeq(RowsOf(trades, uid),
              LAMBDA t : Get(t, "ts", NoTime) # NoTime /\ MonthOf(t.ts) = m)

\* the months of the lookback window in which a user has stored trades
MonthsTraded(uid, now) ==
    {MonthOf(t.ts) : t \in {r \in Range(RowsOf(trades, uid)) : Get(r, "ts", NoTime) # NoTime}}
    \cap (MonthOf(Naive(now - 180))..MonthOf(Naive(now)))

\* the summary of month m lists the stored trades of that month as buys and
\* sells and reports their values
MonthReported(col, uid, m) ==
    \E i \in 1..Len(col) :
        LET d == col[i]
            stored == TradesOfMonth(uid, m)
        IN /\ d.userId = uid /\ d.kind = "trade_history" /\ d.docId = <<"trades", m>>
           /\ Range(d.chunk.buys) \cup Range(d.chunk.sells) = Range(stored)
           /\ Len(d.chunk.buys) + Len(d.chunk.sells) = Len(stored)
           /\ d.chunk.buyValue
                = Products(d.chunk.buys, Len(d.chunk.buys), "qty", "price")
           /\ d.chunk.sellValue
                = Products(d.chunk.sells, Len(d.chunk.sells), "qty", "price")
           /\ d.chunk.net = d.chunk.sellValue - d.chunk.buyValue

\* C30: when the builder has written the trade history of a user, for every
\* calendar month in the lookback window the document of that month lists every
\* stored trade of the user in that month as a buy or a sell, with buy value and
\* sell value the sums of qty * price over them and net cash flow their difference
C30_MonthListsEveryTrade ==
    [][(emb.pc = "e_trades" /\ emb'.pc = "e_funds")
       => \A m \in MonthsTraded(emb.user, clock) :
             MonthReported(embeddings', emb.user, m)]_vars

\* the rows a sync or a refresh has persisted
Persisted ==
    Range(holdings) \cup Range(positions) \cup Range(funds) \cup Range(orders)
    \cup Range(trades) \cup Range(instruments)

RECURSIVE Sanitized(_)
\* no date, no aware datetime and no Decimal in the value, at any depth
Sanitized(v) ==
    CASE v.k \in {"date", "aware", "decimal"} -> FALSE
      [] v.k = "dict" -> \A f \in DOMAIN v.items : Sanitized(v.items[f])
      [] v.k = "list" -> \A i \in 1..Len(v.items) : Sanitized(v.items[i])
      [] OTHER -> TRUE

\* the nested balance of the account P3 with each date at midnight, each
\* aware datetime in naive UTC and each Decimal as a float
BalanceSanitized ==
    Dict([cash |-> Number(700), asOf |-> Naive(1),
          history |-> List(<< Dict([day |-> Naive(1), amount |-> Number(5)]),
                              Naive(2) >>)])

\* C31: every document persisted by a sync or a refresh is sanitized at every
\* nesting depth: no stored field is a date (it is the midnight datetime), an
\* aware datetime (it is the naive UTC datetime) or a Decimal (it is a float),
\* and sanitizing a stored document again changes nothing
C31_PersistedDocumentsSanitized ==
    \A d \in Persisted :
        /\ \A f \in DOMAIN d \cap TypedFields : Sanitized(d[f])
        /\ _normalize_doc(d) = d
        /\ ("available" \in DOMAIN d /\ d.available.k = "dict")
           => d.available = BalanceSanitized
        /\ ("orderId" \in DOMAIN d /\ d.orderId = "u1-O1") => d.ts = Naive(0)
        /\ ("orderId" \in DOMAIN d /\ d.orderId = "u1-O3") => d.ts = Naive(2)
        /\ ("instrumentToken" \in DOMAIN d /\ d.instrumentToken = "tokF"
            /\ "lotSize" \in DOMAIN d) => d.expiry = Naive(30)

\* a sync has stored the nested balance, an order dated by a date and an
\* instrument with an expiry, next to rows a refresh has inserted
C31_Witness ==
    /\ \E d \in Range(funds) : d.available = BalanceSanitized
    /\ \E d \in Range(trades) : d.tradeId = "u1-O3" /\ d.ts = Naive(2)
    /\ \E d \in Range(instruments) : d.expiry = Naive(30)
    /\ \E d \in Range(holdings) : "syncedAt" \in DOMAIN d /\ d.syncedAt.k = "naive"

\* C32: in every reachable state, under any interleaving of the periodic sync
\* and the refresh command, the store holds at most one holdings row per
\* (user, symbol), one positions row per (user, symbol, bucket) and one funds
\* row per (user, segment)
C32_OneRowPerKeyUnderInterleaving ==
    /\ OneRowPerKey(holdings, HoldingsKey)
    /\ OneRowPerKey(positions, PositionsKey)
    /\ OneRowPerKey(funds, FundsKey)

\* C33: the context is token-budgeted: for every message history and every
\* max_tokens, the number of messages returned times the cost of a message
\* (50) does not exceed max_tokens
C33_ContextWithinBudget ==
    ContextGiven => Len(context.list) * TokensPerMessage <= context.max_tokens

\* C34: a forced sync fetches and rewrites the instruments if and only if the
\* cached copy is missing or older than three days; a fetch that succeeds
\* records the time, one that fails records none, and either way the sync
\* goes on to the funds
C34_InstrumentsRefreshedWhenStale ==
    [][\A t \in Tasks :
          (task[t].pc = "s_instr" /\ task'[t].pc # "s_instr")
          => LET stale == meta = -1 \/ clock - meta >= ThreeDays
                 fetched == "get_instruments" \in task'[t].calls
                 n == Len(task'[t].changed)
             IN /\ fetched <=> stale
                /\ instruments' # instruments => stale
                /\ (fetched /\ ~task'[t].changed[n].error) => meta' = clock
                /\ (~fetched \/ task'[t].changed[n].error) => meta' = meta
                /\ task'[t].pc = "s_funds"]_vars

\* C35: each execution of the periodic job invokes the sync exactly once for
\* every user with an enabled connection when the job lists them and for no
\* other user, also when the sync of one of them raises
C35_EachActiveUserSyncedOnce ==
    [][/\ (task["job"].pc = "j_list" /\ task'["job"].pc = "j_next")
          => task'["job"].listed = Active /\ task'["job"].invoked = <<>>
       /\ (task["job"].kind = "periodic" /\ task["job"].pc # "j_list")
          => /\ task'["job"].kind = "periodic" => task'["job"].listed = task["job"].listed
             /\ task'["job"].kind = "idle"
                => /\ Range(task["job"].invoked) = task["job"].listed
                   /\ Len(task["job"].invoked) = Cardinality(task["job"].listed)
       /\ (task["job"].pc = "j_next" /\ task'["job"].pc = "s_conn")
          => task'["job"].user \notin Range(task["job"].invoked)]_vars

\* the sync of the first user has raised and the second user is being synced
C35_Witness ==
    /\ task["job"].raised = 1
    /\ task["job"].listed = Users
    /\ Len(task["job"].invoked) = 2
    /\ task["job"].pc = "s_holdings"

\* C36: after a session reset, the context of the user holds none of the
\* messages that reset archived, only messages recorded after it
C36_ContextStartsCleanAfterReset ==
    ContextGiven => \A i \in 1..Len(context.list) : ~IsArchived(context.list[i])

\* a sync of user u, started by the periodic job or by a manual trigger that
\* does not skip the embeddings, returns after it has persisted broker data
SyncPersisted(u) ==
    \E t \in Tasks :
        /\ task[t].pc = "s_ret" /\ task[t].user = u /\ task[t].writes > 0
        /\ \/ task[t].kind = "periodic"
           \/ task[t].kind = "manual" /\ ~task[t].skipEmb

\* build_embeddings_for_user is reading the rows of user u
Rebuilding(u) == emb.user = u /\ emb.pc = "e_holdings"

\* C37: every sync that persists broker data for a user, started by the
\* periodic job or by a manual trigger that does not skip the embeddings, is
\* eventually followed by an embedding rebuild for that user
C37_SyncFollowedByRebuild ==
    \A u \in Users : [](SyncPersisted(u) => <>Rebuilding(u))

\* C38: when the credential check or one of the three broker fetches of the
\* refresh command fails, the command ends with every holdings, positions and
\* funds row of the user as it was when the command started
FailedBeforeDelete(tk) ==
    /\ tk.kind = "whatsapp"
    /\ tk.pc = "done"
    /\ \/ tk.reply = "expired"
       \/ tk.reply = "failed" /\ "get_positions" \notin tk.calls

C38_FailedRefreshKeepsRows ==
    \A t \in Tasks :
        FailedBeforeDelete(task[t]) => Snapshot(task[t].user) = task[t].before

\* a refresh of a user with stored holdings and funds ended at a failed fetch
C38_Witness ==
    \E t \in Tasks :
        /\ FailedBeforeDelete(task[t])
        /\ task[t].reply = "failed"
        /\ Len(task[t].before.holdings) > 0
        /\ Len(task[t].before.funds) > 0

\* C39: every call of the token exchange is for a token that no earlier call
\* was for, that is unused and younger than TokenTTL seconds, and that is the
\* newest of the unused tokens in the map
Unused(tt) == {i \in 1..Len(tt) : ~tt[i].used}

C39_TokenExchangedOnceWhileFresh ==
    [][Len(exchanged') > Len(exchanged) =>
          LET e == exchanged'[Len(exchanged')]
              i == CHOOSE i \in 1..Len(temp_tokens) : temp_tokens[i].token = e.token
          IN /\ \A k \in 1..Len(exchanged) : exchanged[k].token # e.token
             /\ i \in Unused(temp_tokens)
             /\ clock - temp_tokens[i].timestamp < TokenTTL
             /\ \A j \in Unused(temp_tokens) :
                    temp_tokens[j].timestamp <= temp_tokens[i].timestamp]_vars

\* C40: the step of the refresh endpoint that calls enqueue_embeddings adds
\* one job for the user, under an id no job of the store has, and the request
\* gets its result; a job that runs leaves the store and starts one build
\* for its user
C40_EveryEnqueueAddsADistinctJob ==
    [][/\ \A t \in Tasks :
            (/\ task[t].kind = "manual" /\ task[t].pc = "s_ret" /\ ~task[t].skipEmb
             /\ task'[t].pc = "done")
            => /\ Len(embJobs') = Len(embJobs) + 1
               /\ embJobs'[Len(embJobs')].user = task[t].user
               /\ \A i \in 1..Len(embJobs) : embJobs[i].id # embJobs'[Len(embJobs')].id
               /\ task'[t].embeddings = "scheduled"
       /\ Len(embJobs') < Len(embJobs)
            => /\ embJobs' = Tail(embJobs)
               /\ emb.pc = "idle"
               /\ emb'.pc = "e_user" /\ emb'.user = Head(embJobs).user]_vars

====
